---- MODULE Spec2Model ----
(***************************************************************************)
(* Self-healing locator engine of the recorder extension:                  *)
(*   AISelfHealingService  (aiSelfHealingService.ts, src/unnamed/part_011) *)
(*   SelfHealingService    (examples/recorder-crx/src/selfHealing.ts)      *)
(*   RealDataIntegration   (src/unnamed/part_012)                          *)
(* and, from the backend, the locator generator of its SelfHealingService  *)
(* (selfHealing.service.ts) and DDTService.substituteVariables.            *)
(* Strings are sequences of one-character strings, so that prefix tests,   *)
(* regular expressions and template literals are computed, not assumed.    *)
(* Confidences are fixed-point numbers in thousandths (850 = 0.85).        *)
(* Time is counted in whole days.                                          *)
(***************************************************************************)
EXTENDS Integers, Sequences, FiniteSets, TLC

(* ---------------------------------------------------------------------- *)
(* Bounds of the model                                                     *)
(* ---------------------------------------------------------------------- *)
MaxRecords == 2
MaxNow == 8
MaxSuggestions == 2
MaxHealed == 1
MaxReports == 3
MaxCount == 1
MaxCalls == 2
MaxTokens == 3

(* ---------------------------------------------------------------------- *)
(* Strings                                                                 *)
(* ---------------------------------------------------------------------- *)
Digits == {"0", "1", "2", "3", "4", "5", "6", "7", "8", "9"}
LowerLetters == {"a", "b", "c", "d", "e", "f", "g", "h", "i", "j", "k", "l", "m",
                 "n", "o", "p", "q", "r", "s", "t", "u", "v", "w", "x", "y", "z"}
UpperLetters == {"A", "B", "C", "D", "E", "F", "G", "H", "I", "J", "K", "L", "M",
                 "N", "O", "P", "Q", "R", "S", "T", "U", "V", "W", "X", "Y", "Z"}
HexChars == Digits \cup {"a", "b", "c", "d", "e", "f", "A", "B", "C", "D", "E", "F"}
WordChars == Digits \cup LowerLetters \cup UpperLetters \cup {"_"}
SplitChars == {"#", ".", "[", "]"}

LowerOf == [c \in UpperLetters |->
    CASE c = "A" -> "a" [] c = "B" -> "b" [] c = "C" -> "c" [] c = "D" -> "d"
      [] c = "E" -> "e" [] c = "F" -> "f" [] c = "G" -> "g" [] c = "H" -> "h"
      [] c = "I" -> "i" [] c = "J" -> "j" [] c = "K" -> "k" [] c = "L" -> "l"
      [] c = "M" -> "m" [] c = "N" -> "n" [] c = "O" -> "o" [] c = "P" -> "p"
      [] c = "Q" -> "q" [] c = "R" -> "r" [] c = "S" -> "s" [] c = "T" -> "t"
      [] c = "U" -> "u" [] c = "V" -> "v" [] c = "W" -> "w" [] c = "X" -> "x"
      [] c = "Y" -> "y" [] OTHER -> "z"]

toLowerCase(s) == [i \in 1..Len(s) |-> IF s[i] \in UpperLetters THEN LowerOf[s[i]] ELSE s[i]]

startsWith(s, p) == Len(s) >= Len(p) /\ SubSeq(s, 1, Len(p)) = p

includes(s, p) == \E i \in 1..(Len(s) - Len(p) + 1) : SubSeq(s, i, i + Len(p) - 1) = p

\* /\d{6,}/
HasLongNumber(s) == \E i \in 1..(Len(s) - 5) : \A j \in i..(i + 5) : s[j] \in Digits

\* /css-\w+/ somewhere in s; anchored = TRUE is /^css-\w+/
HasCssModule(s, anchored) ==
    \E i \in 1..(Len(s) - 4) :
        /\ anchored => i = 1
        /\ SubSeq(s, i, i + 3) = <<"c", "s", "s", "-">>
        /\ s[i + 4] \in WordChars

\* /[0-9a-f]{8}-[0-9a-f]{4}-[0-9a-f]{4}-[0-9a-f]{4}-[0-9a-f]{12}/i
HasUuidShape(s) ==
    \E i \in 1..(Len(s) - 35) :
        \A k \in 0..35 : IF k \in {8, 13, 18, 23} THEN s[i + k] = "-" ELSE s[i + k] \in HexChars

RECURSIVE NatToStr(_)
NatToStr(n) ==
    LET d == <<"0", "1", "2", "3", "4", "5", "6", "7", "8", "9">>[(n % 10) + 1]
    IN IF n < 10 THEN <<d>> ELSE NatToStr(n \div 10) \o <<d>>

\* str.split(/[#.\[\]]/)[0]
SplitHead(s) ==
    LET cut == {i \in 1..Len(s) : s[i] \in SplitChars}
    IN IF cut = {} THEN s
       ELSE SubSeq(s, 1, (CHOOSE i \in cut : \A j \in cut : i <= j) - 1)

Min2(a, b) == IF a < b THEN a ELSE b
Max2(a, b) == IF a > b THEN a ELSE b

trim(s) ==
    LET keep == {i \in 1..Len(s) : s[i] # " "}
    IN IF keep = {} THEN <<>>
       ELSE SubSeq(s, CHOOSE i \in keep : \A j \in keep : i <= j,
                      CHOOSE i \in keep : \A j \in keep : i >= j)

\* s.trim().split(/\s+/).length : an empty string splits into one (empty) piece
WordCount(s) ==
    LET t == trim(s)
    IN IF t = <<>> THEN 1
       ELSE Cardinality({i \in 1..Len(t) : t[i] # " " /\ (i = 1 \/ t[i - 1] = " ")})

(* ---------------------------------------------------------------------- *)
(* DOM elements handed to the engine (the caller's input)                  *)
(* ---------------------------------------------------------------------- *)
NoStr == <<>>

BodyChain == << [tagName |-> <<"B", "O", "D", "Y">>, id |-> NoStr, sameTagIndex |-> 1],
                [tagName |-> <<"H", "T", "M", "L">>, id |-> NoStr, sameTagIndex |-> 0] >>

BaseElement ==
    [tagName |-> <<"D", "I", "V">>, id |-> NoStr, className |-> NoStr,
     dataTestid |-> NoStr, dataTest |-> NoStr, ariaLabel |-> NoStr, role |-> NoStr,
     name |-> NoStr, placeholder |-> NoStr, textContent |-> NoStr,
     ancestors |-> BodyChain, sameTagIndex |-> 1, siblingCount |-> 2, indexAmongSiblings |-> 0,
     display |-> "block", visibility |-> "visible", color |-> "rgb(0, 0, 0)",
     width |-> 120, height |-> 40]

\* <button id="ok">Go</button>
ElBtnId == [BaseElement EXCEPT !.tagName = <<"B", "U", "T", "T", "O", "N">>,
                               !.id = <<"o", "k">>, !.textContent = <<"G", "o">>]
\* <button data-testid="t" id="ok" class="css-x"></button>
ElFull == [BaseElement EXCEPT !.tagName = <<"B", "U", "T", "T", "O", "N">>,
                              !.dataTestid = <<"t">>, !.id = <<"o", "k">>,
                              !.className = <<"c", "s", "s", "-", "x">>]
\* <div></div>
ElDiv == BaseElement
\* <a aria-label="x" role="link" class="nav b">Hi</a>
ElLink == [BaseElement EXCEPT !.tagName = <<"A">>, !.ariaLabel = <<"x">>,
                              !.role = <<"l", "i", "n", "k">>,
                              !.className = <<"n", "a", "v", " ", "b">>,
                              !.textContent = <<"H", "i">>, !.indexAmongSiblings = 1]

Elements == {ElBtnId, ElFull, ElDiv, ElLink}

(* ---------------------------------------------------------------------- *)
(* Feature extraction                                                      *)
(* ---------------------------------------------------------------------- *)
commonColors == {"#000000", "#ffffff", "#808080", "#c0c0c0"}
commonSizes == {[w |-> 200, h |-> 30], [w |-> 150, h |-> 30], [w |-> 300, h |-> 150]}
ClickableTags == {<<"b", "u", "t", "t", "o", "n">>, <<"a">>, <<"i", "n", "p", "u", "t">>,
                  <<"s", "e", "l", "e", "c", "t">>, <<"t", "e", "x", "t", "a", "r", "e", "a">>}
SpecialChars == {"!", "@", "#", "$", "%", "^", "&", "*", "(", ")", ",", ".", "?", "\"",
                 ":", "{", "}", "|", "<", ">"}

Abs(n) == IF n < 0 THEN 0 - n ELSE n

isUniqueColor(color) == color \notin commonColors

isUniqueSize(width, height) ==
    ~ \E size \in commonSizes : Abs(width - size.w) < 10 /\ Abs(height - size.h) < 10

getElementDepth(element) == Len(element.ancestors)

extractFeatures(element) ==
    LET idClass == toLowerCase(element.id \o element.className)
    IN [elementType |-> toLowerCase(element.tagName),
        hasId |-> element.id # NoStr,
        hasTestId |-> element.dataTestid # NoStr,
        hasAriaLabel |-> element.ariaLabel # NoStr,
        hasRole |-> element.role # NoStr,
        hasName |-> element.name # NoStr,
        hasPlaceholder |-> element.placeholder # NoStr,
        hasText |-> trim(element.textContent) # NoStr,
        hasClass |-> element.className # NoStr,
        textLength |-> Len(element.textContent),
        textWordCount |-> WordCount(element.textContent),
        hasNumericText |-> \E i \in 1..Len(element.textContent) : element.textContent[i] \in Digits,
        hasSpecialChars |-> \E i \in 1..Len(element.textContent) : element.textContent[i] \in SpecialChars,
        depth |-> getElementDepth(element),
        siblingCount |-> element.siblingCount,
        indexAmongSiblings |-> element.indexAmongSiblings,
        isVisible |-> element.display # "none" /\ element.visibility # "hidden",
        isClickable |-> toLowerCase(element.tagName) \in ClickableTags,
        hasUniqueColor |-> isUniqueColor(element.color),
        hasUniqueSize |-> isUniqueSize(element.width, element.height),
        hasNumericId |-> HasLongNumber(element.id),
        hasCssModuleClass |-> HasCssModule(element.className, TRUE),
        hasTimestamp |-> \/ includes(idClass, <<"t", "i", "m", "e", "s", "t", "a", "m", "p">>)
                         \/ includes(idClass, <<"t", "i", "m", "e">>)
                         \/ includes(idClass, <<"d", "a", "t", "e">>),
        hasUuid |-> HasUuidShape(element.id),
        hasRandomId |-> \/ includes(idClass, <<"r", "a", "n", "d", "o", "m">>)
                        \/ includes(idClass, <<"r", "a", "n", "d">>)
                        \/ includes(idClass, <<"u", "u", "i", "d">>)
                        \/ includes(idClass, <<"g", "u", "i", "d">>)]

(* ---------------------------------------------------------------------- *)
(* SimpleMLModel                                                           *)
(*   predictions in thousandths, weights and bias in millionths            *)
(* ---------------------------------------------------------------------- *)
B2N(b) == IF b THEN 1000 ELSE 0

heuristicPrediction(f) ==
    LET s0 == 500
        s1 == s0 + (IF f.hasTestId THEN 300 ELSE 0)
        s2 == s1 + (IF f.hasId /\ ~f.hasNumericId THEN 250 ELSE 0)
        s3 == s2 + (IF f.hasAriaLabel THEN 200 ELSE 0)
        s4 == s3 + (IF f.hasRole THEN 150 ELSE 0)
        s5 == s4 - (IF f.hasNumericId THEN 300 ELSE 0)
        s6 == s5 - (IF f.hasCssModuleClass THEN 200 ELSE 0)
        s7 == s6 - (IF f.hasTimestamp THEN 150 ELSE 0)
        s8 == s7 - (IF f.hasUuid THEN 250 ELSE 0)
        s9 == s8 + (IF f.isClickable THEN 100 ELSE 0)
        generic == f.elementType \in {<<"d", "i", "v">>, <<"s", "p", "a", "n">>}
        s10 == s9 - (IF generic /\ ~f.hasId /\ ~f.hasTestId /\ ~f.hasClass THEN 200 ELSE 0)
    IN Max2(0, Min2(1000, s10))

featuresToVector(f) ==
    << B2N(f.hasId), B2N(f.hasTestId), B2N(f.hasAriaLabel), B2N(f.hasRole), B2N(f.hasName),
       B2N(f.hasPlaceholder), B2N(f.hasText), B2N(f.hasClass),
       f.textLength * 10, f.textWordCount * 50,
       B2N(f.hasNumericText), B2N(f.hasSpecialChars),
       f.depth * 100, f.siblingCount * 100, f.indexAmongSiblings * 100,
       B2N(f.isVisible), B2N(f.isClickable), B2N(f.hasUniqueColor), B2N(f.hasUniqueSize),
       B2N(f.hasNumericId), B2N(f.hasCssModuleClass), B2N(f.hasTimestamp), B2N(f.hasUuid),
       B2N(f.hasRandomId) >>

\* 1 / (1 + exp(-x)) at x = -6.0, -5.5, ..., 6.0, in thousandths
SigmoidTable == << 2, 4, 7, 11, 18, 29, 47, 76, 119, 182, 269, 378, 500,
                   622, 731, 818, 881, 924, 953, 971, 982, 989, 993, 996, 998 >>

\* the sigmoid of x millionths, in thousandths: the table, linearly interpolated
Sigmoid(x) ==
    LET m == x \div 1000
    IN IF m <= -6000 THEN SigmoidTable[1]
       ELSE IF m >= 6000 THEN SigmoidTable[25]
       ELSE LET k == (m + 6000) \div 500
                r == (m + 6000) % 500
            IN SigmoidTable[k + 1] + ((SigmoidTable[k + 2] - SigmoidTable[k + 1]) * r) \div 500

\* sum over i <= n of v[i] * (w[i] || 0), v in thousandths and w in millionths
RECURSIVE DotUpTo(_, _, _)
DotUpTo(v, w, n) ==
    IF n = 0 THEN 0
    ELSE DotUpTo(v, w, n - 1) + (v[n] * (IF n <= Len(w) THEN w[n] ELSE 0)) \div 1000

DotProduct(v, w) == DotUpTo(v, w, Len(v))

UntrainedModel == [weights |-> <<>>, bias |-> 0, isTrained |-> FALSE]

predict(model, f) ==
    IF ~model.isTrained THEN heuristicPrediction(f)
    ELSE Sigmoid(model.bias + DotProduct(featuresToVector(f), model.weights))

learningRateDiv == 100
epochs == 100

\* weights[i] += learningRate * error * featureVector[i], for every i
UpdateWeights(w, fv, error) ==
    [i \in 1..Len(fv) |-> w[i] + (error * fv[i]) \div learningRateDiv] \o <<>>

\* one pass of the inner loop body for one sample
TrainStep(m, sample) ==
    LET fv == featuresToVector(sample.features)
        prediction == Sigmoid(m.bias + DotProduct(fv, m.weights))
        error == sample.label * 1000 - prediction
    IN [m EXCEPT !.weights = UpdateWeights(m.weights, fv, error),
                 !.bias = m.bias + (error * 1000) \div learningRateDiv]

RECURSIVE TrainSamples(_, _)
TrainSamples(m, data) ==
    IF data = <<>> THEN m ELSE TrainSamples(TrainStep(m, Head(data)), Tail(data))

\* n consecutive epochs of the loop for (epoch = 0; epoch < epochs; epoch++):
\* the first half is evaluated to a model h, the second half continues from h
RECURSIVE TrainEpochs(_, _, _)
TrainEpochs(m, data, n) ==
    IF n = 0 THEN m
    ELSE IF n = 1 THEN TrainSamples(m, data)
    ELSE CHOOSE r \in {TrainEpochs(h, data, n - n \div 2) : h \in {TrainEpochs(m, data, n \div 2)}} : TRUE

train(model, trainingData) ==
    IF Len(trainingData) = 0 THEN model
    ELSE LET featureCount == Len(featuresToVector(trainingData[1].features))
             init == [model EXCEPT !.weights = [i \in 1..featureCount |-> 100000], !.bias = 0]
         IN [TrainEpochs(init, trainingData, epochs) EXCEPT !.isTrained = TRUE]

\* the one-sample training sets recordHealingResult builds, and what train()
\* makes of each of them on a model that has not been trained
TrainingSets == {<<[features |-> extractFeatures(e), label |-> l]>> : e \in Elements, l \in {0, 1}}
TrainedModels == [data \in TrainingSets |-> train(UntrainedModel, data)]

\* train(m, data) tabulated once for the models m the engine starts from or
\* holds after a first training, looked up by mlModelTrain
KnownModels == {UntrainedModel} \cup {TrainedModels[data] : data \in TrainingSets}
RetrainedModels == [m \in KnownModels |-> [data \in TrainingSets |-> train(m, data)]]

\* a train() that keeps the weights and bias of a model that has them, instead
\* of `this.weights = Array(featureCount).fill(0.1); this.bias = 0`
trainContinuing(model, trainingData) ==
    IF model.weights = <<>> THEN train(model, trainingData)
    ELSE [TrainEpochs(model, trainingData, epochs) EXCEPT !.isTrained = TRUE]

\* a train() that is left after its weight and bias updates, before
\* `this.isTrained = true`
trainInterrupted(model, trainingData) ==
    [train(UntrainedModel, trainingData) EXCEPT !.isTrained = model.isTrained]

\* this.mlModel.train(trainingData)
mlModelTrain(model, trainingData) ==
    IF model \in KnownModels /\ trainingData \in TrainingSets
    THEN RetrainedModels[model][trainingData]
    ELSE train(model, trainingData)

(* ---------------------------------------------------------------------- *)
(* AISelfHealingService: candidate generation                              *)
(* ---------------------------------------------------------------------- *)
isDynamicId(id) ==
    \/ HasLongNumber(id)
    \/ includes(toLowerCase(id), <<"t", "i", "m", "e", "s", "t", "a", "m", "p">>)
    \/ includes(toLowerCase(id), <<"u", "i", "d">>)
    \/ includes(toLowerCase(id), <<"u", "u", "i", "d">>)
    \/ includes(toLowerCase(id), <<"r", "a", "n", "d", "o", "m">>)
    \/ HasCssModule(id, FALSE)

isDynamicClass(className) == HasCssModule(className, TRUE) \/ HasLongNumber(className)

\* className.split(' ')[0]
FirstClass(className) ==
    LET sp == {i \in 1..Len(className) : className[i] = " "}
    IN IF sp = {} THEN className
       ELSE SubSeq(className, 1, (CHOOSE i \in sp : \A j \in sp : i <= j) - 1)

\* the element followed by its ancestors, innermost first
NodeChain(element) ==
    <<[tagName |-> element.tagName, id |-> element.id, sameTagIndex |-> element.sameTagIndex]>>
        \o element.ancestors

\* the path built from node k upwards, already reversed and joined;
\* a node without parentElement has no siblings to be found among: index 0
RECURSIVE XPathFrom(_, _)
XPathFrom(chain, k) ==
    IF k > Len(chain) THEN <<>>
    ELSE IF chain[k].id # NoStr /\ ~isDynamicId(chain[k].id)
         THEN <<"/", "/", "*", "[", "@", "i", "d", "=", "\"">> \o chain[k].id \o <<"\"", "]">>
         ELSE XPathFrom(chain, k + 1) \o <<"/">> \o toLowerCase(chain[k].tagName) \o <<"[">>
                  \o NatToStr(IF k = Len(chain) THEN 0 ELSE chain[k].sameTagIndex) \o <<"]">>

generateSmartXPath(element) == XPathFrom(NodeChain(element), 1)

generateAlternativeLocators(element) ==
    LET tag == toLowerCase(element.tagName)
        testId == IF element.dataTestid # NoStr THEN element.dataTestid ELSE element.dataTest
        text == trim(element.textContent)
    IN  (IF testId # NoStr
           THEN <<[locator |-> <<"[", "d", "a", "t", "a", "-", "t", "e", "s", "t", "i", "d", "=", "\"">>
                                  \o testId \o <<"\"", "]">>, strategy |-> "testid"]>>
           ELSE <<>>)
     \o (IF element.id # NoStr /\ ~isDynamicId(element.id)
           THEN <<[locator |-> <<"#">> \o element.id, strategy |-> "id"]>>
           ELSE <<>>)
     \o (IF element.ariaLabel # NoStr
           THEN <<[locator |-> <<"[", "a", "r", "i", "a", "-", "l", "a", "b", "e", "l", "=", "\"">>
                                  \o element.ariaLabel \o <<"\"", "]">>, strategy |-> "aria"]>>
           ELSE <<>>)
     \o (IF element.role # NoStr
           THEN <<[locator |-> <<"[", "r", "o", "l", "e", "=", "\"">> \o element.role \o <<"\"", "]">>,
                   strategy |-> "role"]>>
           ELSE <<>>)
     \o (IF element.name # NoStr
           THEN <<[locator |-> <<"[", "n", "a", "m", "e", "=", "\"">> \o element.name \o <<"\"", "]">>,
                   strategy |-> "name"]>>
           ELSE <<>>)
     \o (IF element.placeholder # NoStr
           THEN <<[locator |-> <<"[", "p", "l", "a", "c", "e", "h", "o", "l", "d", "e", "r", "=", "\"">>
                                  \o element.placeholder \o <<"\"", "]">>, strategy |-> "placeholder"]>>
           ELSE <<>>)
     \o (IF text # NoStr /\ Len(text) < 50
           THEN <<[locator |-> tag \o <<":", "h", "a", "s", "-", "t", "e", "x", "t", "(", "\"">>
                                  \o text \o <<"\"", ")">>, strategy |-> "text"]>>
           ELSE <<>>)
     \o (IF element.className # NoStr /\ ~isDynamicClass(element.className)
           THEN <<[locator |-> tag \o <<".">> \o FirstClass(element.className), strategy |-> "css"]>>
           ELSE <<>>)
     \o <<[locator |-> generateSmartXPath(element), strategy |-> "xpath"]>>

\* extractStrategyFromLocator(locator)
extractStrategyFromLocator(locator) ==
    IF startsWith(locator, <<"[", "d", "a", "t", "a", "-", "t", "e", "s", "t", "i", "d", "=">>)
    THEN "testid"
    ELSE IF startsWith(locator, <<"#">>) THEN "id"
    ELSE IF startsWith(locator, <<"[", "a", "r", "i", "a", "-", "l", "a", "b", "e", "l", "=">>)
    THEN "aria"
    ELSE IF startsWith(locator, <<"[", "r", "o", "l", "e", "=">>) THEN "role"
    ELSE IF startsWith(locator, <<"[", "n", "a", "m", "e", "=">>) THEN "name"
    ELSE IF startsWith(locator, <<"[", "p", "l", "a", "c", "e", "h", "o", "l", "d", "e", "r", "=">>)
    THEN "placeholder"
    ELSE IF includes(locator, <<":", "h", "a", "s", "-", "t", "e", "x", "t", "(">>) THEN "text"
    ELSE IF startsWith(locator, <<"/", "/">>) THEN "xpath"
    ELSE "css"

(* ---------------------------------------------------------------------- *)
(* AISelfHealingService: healing decisions                                 *)
(* ---------------------------------------------------------------------- *)
DefaultConfig ==
    [enabled |-> TRUE, confidenceThreshold |-> 850, maxRetries |-> 3, rollbackAfterFailures |-> 3,
     requireUserApproval |-> FALSE, autoApproveHighConfidence |-> TRUE]

NoRollback == [timestamp |-> -1, reason |-> -1]
NoDecision == [healedLocator |-> NoStr, confidence |-> -1, autoApplied |-> FALSE,
               requiresApproval |-> FALSE, aiEnhanced |-> FALSE]

generateHistoryKey(locator, url) == locator \o <<"-">> \o url

\* this.healingHistory.get(historyKey) || []
HistoryOf(hist, key) == IF key \in DOMAIN hist THEN hist[key] ELSE <<>>

predictLocatorSuccess(model, element) == predict(model, extractFeatures(element))

\* Math.min(1.0, prediction.confidence + historicalBoost)
FinalConfidence(history, model, element, locator) ==
    LET successfulHistory == {i \in 1..Len(history) :
                                 history[i].healedLocator = locator /\ history[i].success}
        historicalBoost == IF successfulHistory # {} THEN 100 ELSE 0
    IN Min2(1000, predictLocatorSuccess(model, element) + historicalBoost)

\* the alternative the for-loop returns on: the first one, in generation order,
\* whose final confidence reaches the threshold (0 when the loop runs out)
SelectAlternative(alternatives, history, model, element, cfg) ==
    LET First(ok) == IF ok = {} THEN 0 ELSE CHOOSE i \in ok : \A j \in ok : i <= j
    IN First({i \in 1..Len(alternatives) :
                 FinalConfidence(history, model, element, alternatives[i].locator)
                     >= cfg.confidenceThreshold})

\* an autoHealLocator that pushes the record of an alternative before it
\* compares the confidence with the threshold
AiAutoHealRecordingFirst(hist, model, cfg, newId, time, failedLocator, element, url) ==
    LET historyKey == generateHistoryKey(failedLocator, url)
        Typed(head) == IF head = NoStr THEN <<"u", "n", "k", "n", "o", "w", "n">> ELSE head
        Heal(history, alternative, finalConfidence, k) ==
            [outcome |-> IF k = 0 THEN "NoSuitableLocator" ELSE "ok",
             decision |-> IF k = 0 THEN NoDecision
                          ELSE [healedLocator |-> alternative.locator,
                                confidence |-> finalConfidence,
                                autoApplied |-> cfg.autoApproveHighConfidence,
                                requiresApproval |-> ~cfg.autoApproveHighConfidence,
                                aiEnhanced |-> FALSE],
             healingHistory |->
                 [key \in DOMAIN hist \cup {historyKey} |->
                     IF key = historyKey
                     THEN Append(history,
                                 [id |-> newId, originalLocator |-> failedLocator,
                                  healedLocator |-> alternative.locator, success |-> FALSE,
                                  confidence |-> finalConfidence, timestamp |-> time,
                                  url |-> url,
                                  elementType |-> Typed(SplitHead(alternative.locator)),
                                  rollback |-> NoRollback])
                     ELSE hist[key]]]
        Try(history, alternatives, k) ==
            Heal(history, alternatives[IF k = 0 THEN 1 ELSE k],
                 FinalConfidence(history, model, element,
                                 alternatives[IF k = 0 THEN 1 ELSE k].locator), k)
        Loop(history, alternatives) ==
            Try(history, alternatives,
                SelectAlternative(alternatives, history, model, element, cfg))
    IN IF ~cfg.enabled
       THEN [outcome |-> "HealingDisabled", decision |-> NoDecision, healingHistory |-> hist]
       ELSE Loop(HistoryOf(hist, historyKey), generateAlternativeLocators(element))

\* autoHealLocator: [outcome, decision, healingHistory], on the state given
AiAutoHeal(hist, model, cfg, newId, time, failedLocator, element, url) ==
    LET historyKey == generateHistoryKey(failedLocator, url)
        \* the body of the loop for the alternative it returns on
        Heal(history, alternative, finalConfidence) ==
            LET autoApply == finalConfidence >= cfg.confidenceThreshold
                                 /\ cfg.autoApproveHighConfidence
                Typed(head) == IF head = NoStr THEN <<"u", "n", "k", "n", "o", "w", "n">>
                               ELSE head
                healingRecord == [id |-> newId, originalLocator |-> failedLocator,
                                  healedLocator |-> alternative.locator, success |-> FALSE,
                                  confidence |-> finalConfidence, timestamp |-> time,
                                  url |-> url,
                                  elementType |-> Typed(SplitHead(alternative.locator)),
                                  rollback |-> NoRollback]
            IN [outcome |-> "ok",
                decision |-> [healedLocator |-> alternative.locator,
                              confidence |-> finalConfidence,
                              autoApplied |-> autoApply, requiresApproval |-> ~autoApply,
                              aiEnhanced |-> FALSE],
                healingHistory |-> [key \in DOMAIN hist \cup {historyKey} |->
                                       IF key = historyKey THEN Append(history, healingRecord)
                                       ELSE hist[key]]]
        Try(history, alternatives, k) ==
            IF k = 0
            THEN [outcome |-> "NoSuitableLocator", decision |-> NoDecision,
                  healingHistory |-> hist]
            ELSE Heal(history, alternatives[k],
                      FinalConfidence(history, model, element, alternatives[k].locator))
        Loop(history, alternatives) ==
            Try(history, alternatives,
                SelectAlternative(alternatives, history, model, element, cfg))
    IN IF ~cfg.enabled
       THEN [outcome |-> "HealingDisabled", decision |-> NoDecision, healingHistory |-> hist]
       ELSE Loop(HistoryOf(hist, historyKey), generateAlternativeLocators(element))

EmptyMap == [key \in {} |-> <<>>]

\* chrome.storage.local: a key is either absent or holds a value
Absent(v) == [present |-> FALSE, value |-> v]
Stored(v) == [present |-> TRUE, value |-> v]

EmptyStorage ==
    [healing_history |-> Absent(EmptyMap),
     ai_healing_model |-> Absent(UntrainedModel),
     ai_healing_config |-> Absent(DefaultConfig),
     unreliable_locators |-> Absent(<<>>),
     locator_strategies |-> Absent(<<>>),
     healing_suggestions |-> EmptyMap]

\* saveHistory: chrome.storage.local.set({ healing_history: ... })
saveHistory(stor, hist) == [stor EXCEPT !.healing_history = Stored(hist)]

\* saveModel: chrome.storage.local.set({ ai_healing_model: this.mlModel.save() })
saveModel(stor, model) == [stor EXCEPT !.ai_healing_model = Stored(model)]

\* markLocatorUnreliable: chrome.storage.local.get resolves to an object without
\* the key when nothing is stored under it, so `... || { unreliable_locators: [] }`
\* is never taken and the push is applied to undefined
markLocatorUnreliable(stor, locator, time) ==
    IF ~stor.unreliable_locators.present
    THEN [outcome |-> "TypeError", storage |-> stor]
    ELSE [outcome |-> "ok",
          storage |-> [stor EXCEPT !.unreliable_locators =
                          Stored(Append(@.value, [locator |-> locator, timestamp |-> time]))]]

\* positions <<key, index>> of the records carrying an id
RecordPositions(hist, healingId) ==
    {p \in UNION {{<<key, i>> : i \in 1..Len(hist[key])} : key \in DOMAIN hist} :
        hist[p[1]][p[2]].id = healingId}

rollbackWindowDays == 7

\* recordHealingResult: [outcome, healingHistory, mlModel, storage].
\* found is what findElementByLocator returns for the healed locator:
\* [present |-> FALSE] for null, else the element of the current document
AiRecordHealingResult(hist, model, cfg, stor, time, healingId, success, found) ==
    LET pos == RecordPositions(hist, healingId)
    IN IF pos = {}
       THEN [outcome |-> "RecordNotFound", healingHistory |-> hist, mlModel |-> model, storage |-> stor]
       ELSE
       LET p == CHOOSE q \in pos : TRUE
           healingRecord == hist[p[1]][p[2]]
           hist1 == [hist EXCEPT ![p[1]][p[2]].success = success]
           historyKey == generateHistoryKey(healingRecord.originalLocator, healingRecord.url)
           history == HistoryOf(hist1, historyKey)
           recentFailures == {i \in 1..Len(history) :
                                 /\ history[i].healedLocator = healingRecord.healedLocator
                                 /\ time - history[i].timestamp <= rollbackWindowDays
                                 /\ ~history[i].success}
           doRollback == ~success /\ Cardinality(recentFailures) >= cfg.rollbackAfterFailures
           hist2 == IF doRollback
                    THEN [hist1 EXCEPT ![p[1]][p[2]].rollback =
                             [timestamp |-> time, reason |-> Cardinality(recentFailures)]]
                    ELSE hist1
           marked == IF doRollback THEN markLocatorUnreliable(stor, healingRecord.healedLocator, time)
                     ELSE [outcome |-> "ok", storage |-> stor]
       IN IF marked.outcome # "ok"
          THEN [outcome |-> marked.outcome, healingHistory |-> hist2, mlModel |-> model,
                storage |-> marked.storage]
          ELSE
          LET stor1 == saveHistory(marked.storage, hist2)
          IN IF found.present
             THEN LET model1 == mlModelTrain(model, <<[features |-> extractFeatures(found.element),
                                                      label |-> IF success THEN 1 ELSE 0]>>)
                  IN [outcome |-> "ok", healingHistory |-> hist2, mlModel |-> model1,
                      storage |-> saveModel(stor1, model1)]
             ELSE [outcome |-> "ok", healingHistory |-> hist2, mlModel |-> model, storage |-> stor1]

\* findElementByLocator: querySelector / document.evaluate return the first
\* element of the document that the locator selects, or null
NotFound == [present |-> FALSE, element |-> ElDiv]
Selects(locator, e) ==
    \E i \in 1..Len(generateAlternativeLocators(e)) :
        generateAlternativeLocators(e)[i].locator = locator
findElementByLocator(doc, locator) ==
    IF \E e \in doc : Selects(locator, e)
    THEN {[present |-> TRUE, element |-> e] : e \in {x \in doc : Selects(locator, x)}}
    ELSE {NotFound}

(* ---------------------------------------------------------------------- *)
(* SelfHealingService: traditional scoring and the best alternative        *)
(* ---------------------------------------------------------------------- *)
locatorStrategies ==
    << [type |-> "testid", priority |-> 1, stability |-> 950],
       [type |-> "id", priority |-> 2, stability |-> 900],
       [type |-> "aria", priority |-> 3, stability |-> 850],
       [type |-> "role", priority |-> 4, stability |-> 800],
       [type |-> "name", priority |-> 5, stability |-> 750],
       [type |-> "placeholder", priority |-> 6, stability |-> 700],
       [type |-> "text", priority |-> 7, stability |-> 650],
       [type |-> "css", priority |-> 8, stability |-> 500],
       [type |-> "xpath", priority |-> 9, stability |-> 400] >>

\* document.createElement(tag) carrying the id, the class and the attributes:
\* detached from any document, without text, style or size
createMockElement(element) ==
    [element EXCEPT !.textContent = NoStr, !.ancestors = <<>>, !.sameTagIndex = 0,
                    !.siblingCount = 0, !.indexAmongSiblings = -1,
                    !.display = "", !.visibility = "", !.color = "",
                    !.width = 0, !.height = 0]

\* calculateConfidence(type, locator, element), in thousandths, under the
\* table this.locatorStrategies holds: `strategy?.stability || 0.5`
calculateConfidenceUnder(strategies, model, ai, type, locator, element) ==
    LET known == {k \in 1..Len(strategies) : strategies[k].type = type}
        Stability(k) == IF strategies[k].stability = 0 THEN 500 ELSE strategies[k].stability
        stabilityScore == IF known = {} THEN 500
                          ELSE Stability(CHOOSE k \in known : \A j \in known : k <= j)
        u1 == 500 + (IF type \in {"id", "testid"} THEN 300 ELSE 0)
        u2 == u1 + (IF type \in {"aria", "role"} THEN 200 ELSE 0)
        u3 == u2 - (IF includes(locator, <<"d", "i", "v">>) \/ includes(locator, <<"s", "p", "a", "n">>) THEN 200 ELSE 0)
        u4 == u3 + (IF element.dataTestid # NoStr \/ element.id # NoStr THEN 200 ELSE 0)
        uniquenessScore == Min2(1000, Max2(0, u4))
        confidence == (stabilityScore * 6 + uniquenessScore * 4) \div 10
    IN IF ai
       THEN (confidence * 7 + predictLocatorSuccess(model, createMockElement(element)) * 3) \div 10
       ELSE confidence

\* calculateConfidence under the table the service is constructed with
calculateConfidence(model, ai, type, locator, element) ==
    calculateConfidenceUnder(locatorStrategies, model, ai, type, locator, element)

\* the locator one strategy yields for the element (<<>> when it yields none)
StrategyLocator(type, element) ==
    LET tag == toLowerCase(element.tagName)
        testId == IF element.dataTestid # NoStr THEN element.dataTestid ELSE element.dataTest
        attr(nm, v) == <<"[">> \o nm \o <<"=", "\"">> \o v \o <<"\"", "]">>
    IN CASE type = "id" ->
              IF element.id # NoStr /\ ~HasLongNumber(element.id)
              THEN <<"#">> \o element.id ELSE NoStr
         [] type = "testid" ->
              IF testId # NoStr THEN attr(<<"d", "a", "t", "a", "-", "t", "e", "s", "t", "i", "d">>, testId) ELSE NoStr
         [] type = "aria" ->
              IF element.ariaLabel # NoStr THEN attr(<<"a", "r", "i", "a", "-", "l", "a", "b", "e", "l">>, element.ariaLabel) ELSE NoStr
         [] type = "role" ->
              IF element.role # NoStr THEN attr(<<"r", "o", "l", "e">>, element.role) ELSE NoStr
         [] type = "name" ->
              IF element.name # NoStr THEN attr(<<"n", "a", "m", "e">>, element.name) ELSE NoStr
         [] type = "placeholder" ->
              IF element.placeholder # NoStr THEN attr(<<"p", "l", "a", "c", "e", "h", "o", "l", "d", "e", "r">>, element.placeholder)
              ELSE NoStr
         [] type = "css" ->
              IF element.className # NoStr /\ ~HasLongNumber(element.className)
              THEN <<".">> \o FirstClass(element.className) ELSE NoStr
         [] type = "xpath" -> <<"/", "/">> \o tag
         [] OTHER -> NoStr

\* locators.sort((a, b) => (b.confidence || 0) - (a.confidence || 0))[0]:
\* the sort is stable, so the first of the most confident ones
BestLocator(locators) ==
    CHOOSE i \in 1..Len(locators) :
        /\ \A j \in 1..Len(locators) : locators[j].confidence <= locators[i].confidence
        /\ \A j \in 1..(i - 1) : locators[j].confidence < locators[i].confidence

RECURSIVE StrategyLocators(_, _, _, _)
StrategyLocators(model, ai, element, k) ==
    IF k > Len(locatorStrategies) THEN <<>>
    ELSE LET type == locatorStrategies[k].type
             loc == StrategyLocator(type, element)
         IN (IF loc = NoStr THEN <<>>
             ELSE <<[locator |-> loc, type |-> type, aiEnhanced |-> FALSE,
                     confidence |-> calculateConfidence(model, ai, type, loc, element)]>>)
            \o StrategyLocators(model, ai, element, k + 1)

NoLocator == [locator |-> NoStr, type |-> "none", aiEnhanced |-> FALSE, confidence |-> 0]

\* findAlternativeLocator(elementInfo): the best locator ([present |-> FALSE] for null)
findAlternativeLocator(model, ai, element) ==
    LET Enhanced(locators, aiPrediction) ==
            [k \in 1..Len(locators) |->
                [locators[k] EXCEPT !.confidence = aiPrediction, !.aiEnhanced = TRUE]]
        Best(locators) ==
            IF locators = <<>> THEN [present |-> FALSE, locator |-> NoLocator]
            ELSE [present |-> TRUE, locator |-> locators[BestLocator(locators)]]
        Sorted(locators) ==
            IF ai /\ locators # <<>>
            THEN Best(Enhanced(locators,
                               predictLocatorSuccess(model, createMockElement(element))))
            ELSE Best(locators)
    IN Sorted(StrategyLocators(model, ai, element, 1))

(* ---------------------------------------------------------------------- *)
(* SelfHealingService: suggestions and the AI-backed wrappers              *)
(* ---------------------------------------------------------------------- *)
defaultStability == 800

\* a HealingSuggestion; successCount / failureCount undefined read as 0,
\* lastUsed undefined as -1
NewSuggestion(id, brokenLocator, validLocator, confidence, status, time, aiEnhanced) ==
    [id |-> id, brokenLocator |-> brokenLocator, validLocator |-> validLocator,
     confidence |-> confidence, stability |-> defaultStability, status |-> status,
     createdAt |-> time, aiEnhanced |-> aiEnhanced,
     successCount |-> 0, failureCount |-> 0, lastUsed |-> -1]

\* map.get(key) || []
SuggestionsOf(sugg, key) == IF key \in DOMAIN sugg THEN sugg[key] ELSE <<>>

\* map.set(key, list)
SetSuggestions(sugg, key, list) ==
    [k \in DOMAIN sugg \cup {key} |-> IF k = key THEN list ELSE sugg[k]]

AllSuggestions(sugg) == UNION {{sugg[k][i] : i \in 1..Len(sugg[k])} : k \in DOMAIN sugg}

\* the suggestions autoHealLocator has stored under the urls it was called with
HealedSuggestions(sugg, ownKey) ==
    UNION {{sugg[k][i] : i \in 1..Len(sugg[k])} : k \in DOMAIN sugg \ {ownKey}}
SuggestionIds(sugg) == {x.id : x \in AllSuggestions(sugg)}

\* the fallback, had it applied its locator without approval
TraditionalHealApplied(model, ai, element) ==
    LET Decision(alternative) ==
            [outcome |-> "ok",
             decision |-> [healedLocator |-> alternative.locator.locator,
                           confidence |-> alternative.locator.confidence,
                           autoApplied |-> TRUE, requiresApproval |-> FALSE,
                           aiEnhanced |-> FALSE]]
    IN Decision(findAlternativeLocator(model, ai, element))

\* the fallback of selfHealingService.autoHealLocator: traditional healing
TraditionalHeal(model, ai, element) ==
    LET Decision(alternative) ==
            IF alternative.present
            THEN [outcome |-> "ok",
                  decision |-> [healedLocator |-> alternative.locator.locator,
                                confidence |-> IF alternative.locator.confidence = 0 THEN 500
                                               ELSE alternative.locator.confidence,
                                autoApplied |-> FALSE, requiresApproval |-> TRUE,
                                aiEnhanced |-> FALSE]]
            ELSE [outcome |-> "NoSuitableLocator", decision |-> NoDecision]
    IN Decision(findAlternativeLocator(model, ai, element))

\* selfHealingService.autoHealLocator: [outcome, decision, healingHistory,
\* suggestions, ids], ids counting the identifiers drawn
ServiceAutoHeal(hist, model, cfg, sugg, ai, newId, time, failedLocator, element, url) ==
    LET Suggested(aiResult) ==
            [outcome |-> "ok",
             decision |-> [aiResult.decision EXCEPT !.aiEnhanced = TRUE],
             healingHistory |-> aiResult.healingHistory,
             suggestions |->
                 SetSuggestions(sugg, url,
                     Append(SuggestionsOf(sugg, url),
                            NewSuggestion(newId + 1, failedLocator,
                                          aiResult.decision.healedLocator,
                                          aiResult.decision.confidence,
                                          IF aiResult.decision.autoApplied THEN "approved"
                                          ELSE "pending",
                                          time, TRUE))),
             ids |-> 2]
        Fallback(traditional) ==
            [outcome |-> traditional.outcome, decision |-> traditional.decision,
             healingHistory |-> hist, suggestions |-> sugg, ids |-> 0]
        Answer(aiResult) ==
            IF ai /\ aiResult.outcome = "ok" THEN Suggested(aiResult)
            ELSE Fallback(TraditionalHeal(model, ai, element))
    IN Answer(AiAutoHeal(hist, model, cfg, newId, time, failedLocator, element, url))

\* the counters of the suggestion carrying healingId, after one outcome
CountOutcome(sugg, healingId, success, time) ==
    [k \in DOMAIN sugg |->
        [i \in 1..Len(sugg[k]) |->
            IF sugg[k][i].id # healingId THEN sugg[k][i]
            ELSE IF success
            THEN [sugg[k][i] EXCEPT !.successCount = @ + 1, !.lastUsed = time]
            ELSE [sugg[k][i] EXCEPT !.failureCount = @ + 1, !.lastUsed = time]]]

\* selfHealingService.recordHealingResult: whatever the AI service throws is
\* caught and logged, what it changed before throwing stays changed
ServiceRecordResult(hist, model, cfg, stor, sugg, time, healingId, success, found) ==
    LET Caught(inner) ==
            [outcome |-> "ok", inner |-> inner.outcome,
             suggestions |-> CountOutcome(sugg, healingId, success, time),
             healingHistory |-> inner.healingHistory, mlModel |-> inner.mlModel,
             storage |-> inner.storage]
    IN Caught(AiRecordHealingResult(hist, model, cfg, stor, time, healingId, success, found))

\* 'current-script', the key recordFailure, getSuggestions, approveSuggestion and
\* rejectSuggestion use
currentScript == <<"c", "u", "r", "r", "e", "n", "t", "-", "s", "c", "r", "i", "p", "t">>

\* the stored suggestion carrying an id, as a position in a list (0 when none)
PositionOf(list, id) ==
    LET at == {i \in 1..Len(list) : list[i].id = id}
    IN IF at = {} THEN 0 ELSE CHOOSE i \in at : \A j \in at : i <= j

\* recordFailure(brokenLocator, validLocator): [created, suggestions, stored];
\* validLocator.present is FALSE when the argument is left out
RecordFailureResult(sugg, stored, newId, time, brokenLocator, validLocator) ==
    LET list == SuggestionsOf(sugg, currentScript)
        existing == {k \in 1..Len(list) : /\ list[k].brokenLocator = brokenLocator
                                          /\ list[k].validLocator = validLocator.locator}
        suggestion == NewSuggestion(newId, brokenLocator, validLocator.locator,
                                    IF validLocator.confidence = 0 THEN 500
                                    ELSE validLocator.confidence,
                                    "pending", time, validLocator.aiEnhanced)
    IN IF ~validLocator.present \/ existing # {}
       THEN [created |-> FALSE, suggestions |-> sugg, stored |-> stored]
       ELSE [created |-> TRUE,
             suggestions |-> SetSuggestions(sugg, currentScript, Append(list, suggestion)),
             stored |-> SetSuggestions(stored, currentScript, Append(list, suggestion))]

\* approveSuggestion / rejectSuggestion on the list getSuggestions() returns:
\* the status is set whatever it was
SetStatus(list, id, status) ==
    LET k == PositionOf(list, id)
    IN IF k = 0 THEN list
       ELSE [list EXCEPT ![k].status = status,
                         ![k].confidence = IF status = "approved" THEN Min2(1000, @ + 100)
                                           ELSE @]

\* the filter without its status test
shouldRemoveAnyStatus(x, cutoffDate) == x.createdAt < cutoffDate

\* the filter of cleanupSuggestions
shouldRemove(x, cutoffDate) == x.status = "rejected" /\ x.createdAt < cutoffDate

RECURSIVE Keep(_, _)
Keep(list, cutoffDate) ==
    IF list = <<>> THEN <<>>
    ELSE (IF shouldRemove(Head(list), cutoffDate) THEN <<>> ELSE <<Head(list)>>)
         \o Keep(Tail(list), cutoffDate)

\* cleanedCount: one increment for every suggestion the filter drops
RECURSIVE CountRemoved(_, _)
CountRemoved(sugg, cutoffDate) ==
    IF DOMAIN sugg = {} THEN 0
    ELSE LET k == CHOOSE x \in DOMAIN sugg : TRUE
         IN Cardinality({i \in 1..Len(sugg[k]) : shouldRemove(sugg[k][i], cutoffDate)})
            + CountRemoved([j \in DOMAIN sugg \ {k} |-> sugg[j]], cutoffDate)

\* cleanupSuggestions(daysOld): [cleanedCount, suggestions, stored]; every script
\* of the in-memory map is filtered and written to storage
Cleanup(sugg, stored, time, daysOld) ==
    LET filtered == [k \in DOMAIN sugg |-> Keep(sugg[k], time - daysOld)]
    IN [cleanedCount |-> CountRemoved(sugg, time - daysOld),
        suggestions |-> filtered,
        stored |-> [k \in DOMAIN stored \cup DOMAIN sugg |->
                       IF k \in DOMAIN sugg THEN filtered[k] ELSE stored[k]]]

(* ---------------------------------------------------------------------- *)
(* State                                                                   *)
(* ---------------------------------------------------------------------- *)
\* the backend's database before any call: no SelfHealingLocator row, no
\* TestStep row, every test run as the controller created it
TestRunIds == {"run1", "run2"}
EmptyDatabase == [selfHealingLocator |-> <<>>, testStep |-> <<>>,
                  testRun |-> [id \in TestRunIds |-> "pending"],
                  uniqueTriple |-> FALSE]

VARIABLES now,            \* the clock, in days
          nextId,         \* source of the Math.random() identifiers
          config,         \* AISelfHealingService.config
          healingHistory, \* AISelfHealingService.healingHistory : key -> records
          mlModel,        \* SimpleMLModel {weights, bias, isTrained}
          storage,        \* chrome.storage.local
          suggestions,    \* SelfHealingService.suggestions : scriptId -> suggestions
          aiEnabled,      \* SelfHealingService.aiEnabled
          document,       \* the elements of the page the service runs in
          rejected,       \* ids that rejectSuggestion has set to 'rejected'
          heap,           \* the arrays healingHistory holds, by identity
          historyRef,     \* healingHistory as a Map : key -> array of heap
          calls,          \* the async calls made, in call order, each with its position
          strategies,     \* SelfHealingService.locatorStrategies
          failureReports, \* record id -> failure outcomes a caller has reported for it
          prisma,         \* the backend's database: its tables and what its schema enforces
          activeRuns,     \* TestRunnerService.activeRuns, the ids it holds
          requests,       \* the backend calls made, in call order, each with its position
          lastOp          \* the last call and what it returned or threw

vars == <<now, nextId, config, healingHistory, mlModel, storage, suggestions, aiEnabled,
          document, rejected, heap, historyRef, calls, strategies, failureReports,
          prisma, activeRuns, requests, lastOp>>

\* inputs
FailedLocators == {<<"#", "x">>, <<"#", "y">>}
FailedElements == {ElBtnId, ElFull, ElDiv}
Urls == {<<"u">>}
TickSteps == {8}
UnknownId == 0

\* updateConfig arguments (Partial<AutoHealingConfig>)
ConfigPatches ==
    << [enabled |-> FALSE, autoApproveHighConfidence |-> TRUE, rollbackAfterFailures |-> 3],
       [enabled |-> TRUE, autoApproveHighConfidence |-> TRUE, rollbackAfterFailures |-> 3],
       [enabled |-> TRUE, autoApproveHighConfidence |-> FALSE, rollbackAfterFailures |-> 1] >>

AllRecords(hist) == UNION {{hist[key][i] : i \in 1..Len(hist[key])} : key \in DOMAIN hist}
RecordIds(hist) == {r.id : r \in AllRecords(hist)}
RecordById(hist, id) == CHOOSE r \in AllRecords(hist) : r.id = id

\* the statistics of an engine without records
NoStatistics == [totalHealings |-> 0, successRate |-> 0, autoHealRate |-> 0, rollbackRate |-> 0,
                 averageConfidence |-> 0, topStrategies |-> {}]

NoOp == [op |-> "none", outcome |-> "none", decision |-> NoDecision,
         locator |-> NoStr, url |-> NoStr, element |-> ElDiv,
         healingId |-> UnknownId, success |-> FALSE, daysOld |-> 0, count |-> 0,
         inner |-> "none", type |-> "none",
         template |-> NoStr, data |-> <<>>, result |-> NoStr,
         statistics |-> NoStatistics]

Init ==
    /\ now = 0
    /\ nextId = 1
    /\ config = DefaultConfig
    /\ healingHistory = EmptyMap
    /\ mlModel = UntrainedModel
    /\ storage = EmptyStorage
    /\ suggestions = EmptyMap
    /\ aiEnabled = TRUE
    /\ document = {}
    /\ rejected = {}
    /\ heap = <<>>
    /\ historyRef = EmptyMap
    /\ calls = <<>>
    /\ strategies = locatorStrategies
    /\ failureReports = EmptyMap
    /\ prisma = EmptyDatabase
    /\ activeRuns = {}
    /\ requests = <<>>
    /\ lastOp = NoOp

(* ---------------------------------------------------------------------- *)
(* AISelfHealingService operations                                         *)
(* ---------------------------------------------------------------------- *)
Tick ==
    /\ \E d \in TickSteps : now + d <= MaxNow /\ now' = now + d
    /\ lastOp' = [NoOp EXCEPT !.op = "tick"]
    /\ UNCHANGED <<prisma, activeRuns, requests, failureReports, strategies, heap, historyRef, calls, nextId, config, healingHistory, mlModel, storage, suggestions, aiEnabled,
                   document, rejected>>

\* what an autoHeal call leaves in lastOp (the arguments matter to the
\* outcome only once healing is enabled)
Returned(op, res, failedLocator, element, url) ==
    IF res.outcome = "HealingDisabled"
    THEN [NoOp EXCEPT !.op = op, !.outcome = res.outcome]
    ELSE [NoOp EXCEPT !.op = op, !.outcome = res.outcome, !.decision = res.decision,
                      !.locator = failedLocator, !.url = url, !.element = element]

\* aiSelfHealingService.autoHealLocator(failedLocator, element, {url, failureReason})
AutoHealLocator ==
    /\ Cardinality(AllRecords(healingHistory)) < MaxRecords
    /\ \E failedLocator \in FailedLocators, element \in FailedElements, url \in Urls :
        \E res \in {AiAutoHeal(healingHistory, mlModel, config, nextId, now,
                              failedLocator, element, url)} :
           /\ healingHistory' = res.healingHistory
           /\ storage' = IF res.outcome = "ok" THEN saveHistory(storage, res.healingHistory)
                         ELSE storage
           /\ nextId' = IF res.outcome = "ok" THEN nextId + 1 ELSE nextId
           /\ lastOp' = Returned("autoHeal", res, failedLocator, element, url)
    /\ UNCHANGED <<prisma, activeRuns, requests, failureReports, strategies, heap, historyRef, calls, now, config, mlModel, suggestions, aiEnabled, document, rejected>>

\* how many calls in a row, this one included, have reported a failure for healingId
FailureStreak(last, healingId) ==
    IF last.op = "recordOutcome" /\ last.healingId = healingId /\ ~last.success
    THEN last.count + 1 ELSE 1

\* aiSelfHealingService.recordHealingResult(healingId, success, error)
RecordHealingResult ==
    \E healingId \in RecordIds(healingHistory) \cup {UnknownId}, success \in BOOLEAN :
      /\ success \/ FailureStreak(lastOp, healingId) <= MaxReports
      /\ \E found \in (IF healingId \in RecordIds(healingHistory)
                       THEN findElementByLocator(document,
                                RecordById(healingHistory, healingId).healedLocator)
                       ELSE {NotFound}) :
         \E res \in {AiRecordHealingResult(healingHistory, mlModel, config, storage, now,
                                          healingId, success, found)} :
            /\ healingHistory' = res.healingHistory
            /\ mlModel' = res.mlModel
            /\ storage' = res.storage
            /\ lastOp' = [NoOp EXCEPT !.op = "recordOutcome", !.outcome = res.outcome,
                                      !.healingId = healingId, !.success = success,
                                      !.count = IF success \/ res.outcome = "RecordNotFound"
                                                THEN 0
                                                ELSE FailureStreak(lastOp, healingId)]
      /\ UNCHANGED <<prisma, activeRuns, requests, failureReports, strategies, heap, historyRef, calls, now, nextId, config, suggestions, aiEnabled, document, rejected>>

\* { ...this.config, ...newConfig }
MergeConfig(cfg, newConfig) ==
    [f \in DOMAIN cfg |-> IF f \in DOMAIN newConfig THEN newConfig[f] ELSE cfg[f]]

\* aiSelfHealingService.updateConfig(newConfig)
UpdateConfig ==
    \E i \in 1..Len(ConfigPatches) :
        /\ config' = MergeConfig(config, ConfigPatches[i])
        /\ storage' = [storage EXCEPT !.ai_healing_config = Stored(config')]
        /\ lastOp' = [NoOp EXCEPT !.op = "updateConfig", !.outcome = "ok"]
        /\ UNCHANGED <<prisma, activeRuns, requests, failureReports, strategies, heap, historyRef, calls, now, nextId, healingHistory, mlModel, suggestions, aiEnabled,
                       document, rejected>>

\* the page under the service changes
Documents == {{}, {ElBtnId}}
Navigate ==
    /\ \E d \in Documents : document' = d
    /\ lastOp' = [NoOp EXCEPT !.op = "navigate"]
    /\ UNCHANGED <<prisma, activeRuns, requests, failureReports, strategies, heap, historyRef, calls, now, nextId, config, healingHistory, mlModel, storage, suggestions,
                   aiEnabled, rejected>>

(* ---------------------------------------------------------------------- *)
(* SelfHealingService and RealDataIntegration operations                   *)
(* ---------------------------------------------------------------------- *)
\* selfHealingService.setAIEnabled(enabled)
SetAIEnabled ==
    /\ \E enabled \in BOOLEAN : aiEnabled' = enabled
    /\ lastOp' = [NoOp EXCEPT !.op = "setAIEnabled", !.outcome = "ok"]
    /\ UNCHANGED <<prisma, activeRuns, requests, failureReports, strategies, heap, historyRef, calls, now, nextId, config, healingHistory, mlModel, storage, suggestions,
                   document, rejected>>

\* `test-${execution.scriptId}`
ScriptIds == {<<"s">>}
TestUrl(scriptId) == <<"t", "e", "s", "t", "-">> \o scriptId

\* the locators of the failing test steps
StepLocators == {<<"#", "x">>}

\* selfHealingService.autoHealLocator(failedLocator, element, {url, failureReason})
ServiceAutoHealLocator ==
    /\ Cardinality(AllRecords(healingHistory)) < MaxRecords
    /\ Cardinality(HealedSuggestions(suggestions, currentScript)) < MaxHealed
    /\ \E failedLocator \in StepLocators, element \in FailedElements,
          url \in {TestUrl(scriptId) : scriptId \in ScriptIds} :
        \E res \in {ServiceAutoHeal(healingHistory, mlModel, config, suggestions, aiEnabled,
                                   nextId, now, failedLocator, element, url)} :
           /\ healingHistory' = res.healingHistory
           /\ suggestions' = res.suggestions
           /\ storage' = IF res.ids > 0 THEN saveHistory(storage, res.healingHistory)
                         ELSE storage
           /\ nextId' = nextId + res.ids
           /\ lastOp' = Returned("serviceAutoHeal", res, failedLocator, element, url)
    /\ UNCHANGED <<prisma, activeRuns, requests, failureReports, strategies, heap, historyRef, calls, now, config, mlModel, aiEnabled, document, rejected>>

\* selfHealingService.recordHealingResult(healingId, success, error)
ServiceRecordHealingResult ==
    \E healingId \in RecordIds(healingHistory) \cup SuggestionIds(suggestions) \cup {UnknownId},
       success \in BOOLEAN :
      /\ \E found \in (IF healingId \in RecordIds(healingHistory)
                       THEN findElementByLocator(document,
                                RecordById(healingHistory, healingId).healedLocator)
                       ELSE {NotFound}) :
         \E res \in {ServiceRecordResult(healingHistory, mlModel, config, storage, suggestions,
                                        now, healingId, success, found)} :
            /\ \A x \in AllSuggestions(res.suggestions) :
                  x.successCount <= MaxCount /\ x.failureCount <= MaxCount
            /\ healingHistory' = res.healingHistory
            /\ mlModel' = res.mlModel
            /\ storage' = res.storage
            /\ suggestions' = res.suggestions
            /\ lastOp' = [NoOp EXCEPT !.op = "serviceRecordOutcome", !.outcome = res.outcome,
                                      !.inner = res.inner,
                                      !.healingId = healingId, !.success = success]
      /\ UNCHANGED <<prisma, activeRuns, requests, failureReports, strategies, heap, historyRef, calls, now, nextId, config, aiEnabled, document, rejected>>

\* realDataIntegration.attemptAutoHealing(execution, failure), for a failure that
\* carries its element: [healed, decision, healingHistory, suggestions, ids]
AttemptHeal(hist, model, cfg, sugg, ai, newId, time, failedLocator, element, url) ==
    LET Traditional(traditionalResult, ids1) ==
            [healed |-> traditionalResult.outcome = "ok",
             outcome |-> traditionalResult.outcome,
             decision |-> traditionalResult.decision,
             healingHistory |-> traditionalResult.healingHistory,
             suggestions |-> traditionalResult.suggestions,
             ids |-> ids1 + traditionalResult.ids]
        Attempt(aiResult) ==
            IF ~cfg.enabled
            THEN Traditional(ServiceAutoHeal(hist, model, cfg, sugg, ai, newId, time,
                                             failedLocator, element, url), 0)
            ELSE IF aiResult.outcome # "ok"
            THEN [healed |-> FALSE, outcome |-> aiResult.outcome, decision |-> NoDecision,
                  healingHistory |-> hist, suggestions |-> sugg, ids |-> 0]
            ELSE IF aiResult.decision.autoApplied
            THEN [healed |-> TRUE, outcome |-> "ok", decision |-> aiResult.decision,
                  healingHistory |-> aiResult.healingHistory, suggestions |-> sugg, ids |-> 1]
            ELSE Traditional(ServiceAutoHeal(aiResult.healingHistory, model, cfg, sugg, ai,
                                             newId + 1, time, failedLocator, element, url), 1)
    IN Attempt(AiAutoHeal(hist, model, cfg, newId, time, failedLocator, element, url))

AttemptAutoHealing ==
    /\ Cardinality(AllRecords(healingHistory)) + 1 < MaxRecords
    /\ Cardinality(HealedSuggestions(suggestions, currentScript)) < MaxHealed
    /\ \E failedLocator \in StepLocators, element \in FailedElements, scriptId \in ScriptIds :
        \E res \in {AttemptHeal(healingHistory, mlModel, config, suggestions, aiEnabled,
                               nextId, now, failedLocator, element, TestUrl(scriptId))} :
           /\ healingHistory' = res.healingHistory
           /\ suggestions' = res.suggestions
           /\ storage' = IF res.healingHistory # healingHistory
                         THEN saveHistory(storage, res.healingHistory) ELSE storage
           /\ nextId' = nextId + res.ids
           /\ lastOp' = [NoOp EXCEPT !.op = "attemptAutoHealing",
                                     !.outcome = IF res.healed THEN "healed" ELSE "notHealed",
                                     !.inner = res.outcome, !.decision = res.decision,
                                     !.locator = failedLocator, !.element = element,
                                     !.url = TestUrl(scriptId)]
    /\ UNCHANGED <<prisma, activeRuns, requests, failureReports, strategies, heap, historyRef, calls, now, config, mlModel, aiEnabled, document, rejected>>

\* the id realDataIntegration.recordHealingResult passes on for the failure
\* noted at failureTime, `failure-${failure.id}` with failure.id itself
\* `failure-${Date.now()}`: generateId draws at most nine characters of 0-9a-z,
\* so the identifiers of records and suggestions (1, 2, ..) are never of this form
FailureHealingId(failureTime) == 0 - (failureTime + 1)

\* realDataIntegration.recordHealingResult(failure, success): the AI service
\* first, the traditional service only when that call returned; whatever is
\* thrown is caught and logged
IntegrationRecordResult(hist, model, cfg, stor, sugg, time, healingId, success) ==
    LET Second(first) ==
            IF first.outcome # "ok"
            THEN [outcome |-> "ok", inner |-> first.outcome, suggestions |-> sugg,
                  healingHistory |-> first.healingHistory, mlModel |-> first.mlModel,
                  storage |-> first.storage]
            ELSE ServiceRecordResult(first.healingHistory, first.mlModel, cfg, first.storage,
                                     sugg, time, healingId, success, NotFound)
    IN Second(AiRecordHealingResult(hist, model, cfg, stor, time, healingId, success, NotFound))

\* realDataIntegration.handleLocatorHealed(event), for the 'locatorHealed' event
\* attemptAutoHealing emits once it holds a healed locator; isListening is the
\* flag the handler reads on its receiver
HandleLocatorHealed ==
    /\ lastOp.op = "attemptAutoHealing"
    /\ lastOp.outcome = "healed"
    /\ \E isListening \in BOOLEAN, failureTime \in 0..now :
        \E res \in {IntegrationRecordResult(healingHistory, mlModel, config, storage, suggestions,
                                           now, FailureHealingId(failureTime), TRUE)} :
           /\ healingHistory' = IF isListening THEN res.healingHistory ELSE healingHistory
           /\ mlModel' = IF isListening THEN res.mlModel ELSE mlModel
           /\ storage' = IF isListening THEN res.storage ELSE storage
           /\ suggestions' = IF isListening THEN res.suggestions ELSE suggestions
           /\ lastOp' = [NoOp EXCEPT !.op = "handleLocatorHealed",
                                     !.outcome = IF isListening THEN res.outcome ELSE "ignored",
                                     !.inner = IF isListening THEN res.inner ELSE "none",
                                     !.healingId = FailureHealingId(failureTime),
                                     !.success = TRUE,
                                     !.decision = lastOp.decision,
                                     !.locator = lastOp.locator, !.url = lastOp.url]
    /\ UNCHANGED <<prisma, activeRuns, requests, failureReports, strategies, heap, historyRef, calls, now, nextId, config, aiEnabled, document, rejected>>

\* validLocator arguments of recordFailure: left out, or a LocatorInfo
NoValidLocator == [present |-> FALSE, locator |-> NoStr, confidence |-> 0, aiEnhanced |-> FALSE]
ValidLocators ==
    {NoValidLocator,
     [present |-> TRUE, locator |-> <<"#", "o", "k">>, confidence |-> 0, aiEnhanced |-> FALSE],
     [present |-> TRUE, locator |-> <<"#", "g", "o">>, confidence |-> 900, aiEnhanced |-> TRUE]}

\* selfHealingService.recordFailure(brokenLocator, validLocator)
RecordFailure ==
    /\ Len(SuggestionsOf(suggestions, currentScript)) < MaxSuggestions
    /\ \E brokenLocator \in StepLocators, validLocator \in ValidLocators :
        \E res \in {RecordFailureResult(suggestions, storage.healing_suggestions, nextId, now,
                                       brokenLocator, validLocator)} :
           /\ suggestions' = res.suggestions
           /\ storage' = [storage EXCEPT !.healing_suggestions = res.stored]
           /\ nextId' = IF res.created THEN nextId + 1 ELSE nextId
           /\ lastOp' = [NoOp EXCEPT !.op = "recordFailure",
                                     !.outcome = IF res.created THEN "created"
                                                 ELSE IF validLocator.present THEN "existing"
                                                 ELSE "null"]
    /\ UNCHANGED <<prisma, activeRuns, requests, failureReports, strategies, heap, historyRef, calls, now, config, healingHistory, mlModel, aiEnabled, document, rejected>>

\* selfHealingService.getSuggestions()
getSuggestions(stor) == SuggestionsOf(stor.healing_suggestions, currentScript)

\* approveSuggestion(id) and rejectSuggestion(id): the stored copy is changed and
\* written back; an AI-enhanced suggestion is also reported to the AI service,
\* whose exceptions are caught
Decide(op, status, success) ==
    \E id \in {x.id : x \in AllSuggestions(storage.healing_suggestions)} \cup {UnknownId} :
        \E list \in {getSuggestions(storage)} :
        \E k \in {PositionOf(list, id)} :
        \E stor1 \in {[storage EXCEPT !.healing_suggestions =
                          SetSuggestions(@, currentScript, SetStatus(list, id, status))]} :
        \E inner \in {AiRecordHealingResult(healingHistory, mlModel, config, stor1, now,
                                            id, success, NotFound)} :
        \E report \in {k # 0 /\ list[k].aiEnhanced} :
           /\ storage' = IF k = 0 THEN storage ELSE IF report THEN inner.storage ELSE stor1
           /\ healingHistory' = IF report THEN inner.healingHistory ELSE healingHistory
           /\ mlModel' = IF report THEN inner.mlModel ELSE mlModel
           /\ rejected' = IF k # 0 /\ status = "rejected" THEN rejected \cup {id} ELSE rejected
           /\ lastOp' = [NoOp EXCEPT !.op = op, !.healingId = id,
                                     !.outcome = IF k # 0 THEN "true" ELSE "false",
                                     !.inner = IF report THEN inner.outcome ELSE "none"]
           /\ UNCHANGED <<prisma, activeRuns, requests, failureReports, strategies, heap, historyRef, calls, now, nextId, config, suggestions, aiEnabled, document>>

ApproveSuggestion == Decide("approve", "approved", TRUE)

RejectSuggestion == Decide("reject", "rejected", FALSE)

\* cleanupSuggestions arguments: the default and an immediate cleanup
defaultDaysOld == 30
DaysOld == {0, defaultDaysOld}

\* selfHealingService.cleanupSuggestions(daysOld)
CleanupSuggestions ==
    \E daysOld \in DaysOld :
        \E res \in {Cleanup(suggestions, storage.healing_suggestions, now, daysOld)} :
           /\ suggestions' = res.suggestions
           /\ storage' = [storage EXCEPT !.healing_suggestions = res.stored]
           /\ lastOp' = [NoOp EXCEPT !.op = "cleanup", !.outcome = "ok",
                                     !.daysOld = daysOld, !.count = res.cleanedCount]
           /\ UNCHANGED <<prisma, activeRuns, requests, failureReports, strategies, heap, historyRef, calls, now, nextId, config, healingHistory, mlModel, aiEnabled,
                          document, rejected>>

Next == AutoHealLocator \/ RecordHealingResult \/ UpdateConfig \/ Tick

Spec == Init /\ [][Next]_vars

\* the AI service while the page changes under it
NextLearn == AutoHealLocator \/ RecordHealingResult \/ Navigate

SpecLearn == Init /\ [][NextLearn]_vars

\* the services layered on the AI service
NextWrap ==
    \/ ServiceAutoHealLocator
    \/ ServiceRecordHealingResult
    \/ AttemptAutoHealing
    \/ HandleLocatorHealed
    \/ SetAIEnabled
    \/ UpdateConfig

SpecWrap == Init /\ [][NextWrap]_vars

\* the suggestion store, with the suggestions the AI-backed wrapper adds
NextSugg ==
    \/ RecordFailure
    \/ ApproveSuggestion
    \/ RejectSuggestion
    \/ CleanupSuggestions
    \/ ServiceAutoHealLocator
    \/ Tick

SpecSugg == Init /\ [][NextSugg]_vars

(* ---------------------------------------------------------------------- *)
(* AISelfHealingService: calls that interleave at their awaits             *)
(* ---------------------------------------------------------------------- *)
\* healingHistory as the Map shows it: every key with the contents of its array
Deref(ref, hp) == [key \in DOMAIN ref |-> hp[ref[key]]]

\* a call: its arguments, the locals it holds across an await, where it waits
\* (pc) and, once it is done, what it returned or threw
NoCall == [op |-> "none", pc |-> "done", failedLocator |-> NoStr, element |-> ElDiv,
           url |-> NoStr, history |-> 0, alternatives |-> <<>>, k |-> 0, prediction |-> 0,
           healingId |-> UnknownId, success |-> FALSE, healedLocator |-> NoStr,
           found |-> NotFound, stored |-> Absent(<<>>), settled |-> FALSE,
           outcome |-> "none", decision |-> NoDecision, recordId |-> UnknownId]

\* what an earlier session of the extension left in chrome.storage.local
PreviousHistory ==
    [key \in {generateHistoryKey(<<"#", "x">>, <<"u">>)} |->
        <<[id |-> 1, originalLocator |-> <<"#", "x">>, healedLocator |-> <<"#", "o", "k">>,
           success |-> TRUE, confidence |-> 850, timestamp |-> 0, url |-> <<"u">>,
           elementType |-> <<"u", "n", "k", "n", "o", "w", "n">>, rollback |-> NoRollback]>>]
PreviousModel ==
    TrainedModels[<<[features |-> extractFeatures(ElBtnId), label |-> 1]>>]
PreviousStorage ==
    [EmptyStorage EXCEPT !.healing_history = Stored(PreviousHistory),
                         !.ai_healing_model = Stored(PreviousModel)]

\* constructor: this.loadModel(); this.loadHistory(); both are left waiting for
\* chrome.storage.local.get, which answers with what was stored when it was asked
InitAsync ==
    /\ now = 0
    /\ nextId = 2
    /\ config = DefaultConfig
    /\ healingHistory = EmptyMap
    /\ mlModel = UntrainedModel
    /\ storage \in {EmptyStorage, PreviousStorage}
    /\ suggestions = EmptyMap
    /\ aiEnabled = TRUE
    /\ document = {ElBtnId}
    /\ rejected = {}
    /\ heap = <<>>
    /\ historyRef = EmptyMap
    /\ calls = <<[NoCall EXCEPT !.op = "loadModel", !.pc = "get",
                                !.stored = storage.ai_healing_model],
                 [NoCall EXCEPT !.op = "loadHistory", !.pc = "get",
                                !.stored = storage.healing_history]>>
    /\ strategies = locatorStrategies
    /\ failureReports = EmptyMap
    /\ prisma = EmptyDatabase
    /\ activeRuns = {}
    /\ requests = <<>>
    /\ lastOp = NoOp

\* the calls a client has made
UserCalls(cs) == {i \in 1..Len(cs) : cs[i].op \in {"autoHeal", "recordOutcome"}}
\* the constructor's loads have completed
Settled(cs) == \A i \in 1..Len(cs) : cs[i].op \in {"loadModel", "loadHistory"} => cs[i].pc = "done"

\* autoHealLocator up to `await this.generateAlternativeLocators(element)`
CallAutoHeal ==
    /\ Cardinality(UserCalls(calls)) < MaxCalls
    /\ \E failedLocator \in FailedLocators, element \in FailedElements, url \in Urls :
         \E historyKey \in {generateHistoryKey(failedLocator, url)} :
            IF ~config.enabled
            THEN /\ calls' = Append(calls, [NoCall EXCEPT !.op = "autoHeal",
                                                         !.outcome = "HealingDisabled"])
                 /\ heap' = heap
            ELSE /\ heap' = IF historyKey \in DOMAIN historyRef THEN heap
                            ELSE Append(heap, <<>>)
                 /\ calls' = Append(calls,
                       [NoCall EXCEPT !.op = "autoHeal", !.pc = "generated",
                                      !.failedLocator = failedLocator, !.element = element,
                                      !.url = url,
                                      !.history = IF historyKey \in DOMAIN historyRef
                                                  THEN historyRef[historyKey]
                                                  ELSE Len(heap) + 1,
                                      !.alternatives = generateAlternativeLocators(element),
                                      !.settled = Settled(calls)])
    /\ UNCHANGED <<prisma, activeRuns, requests, failureReports, strategies, now, nextId, config, healingHistory, mlModel, storage, suggestions,
                   aiEnabled, document, rejected, historyRef, lastOp>>

\* autoHealLocator from one await to the next, or to its return or throw:
\* [call, heap, historyRef, saved]
AutoHealStep(c, hp, ref, model, cfg, newId, time) ==
    LET Throw == [call |-> [c EXCEPT !.pc = "done", !.outcome = "NoSuitableLocator"],
                  heap |-> hp, historyRef |-> ref, saved |-> FALSE]
        \* const prediction = await this.predictLocatorSuccess(element, alternative.locator)
        Predict(k) == [call |-> [c EXCEPT !.pc = "predicted", !.k = k,
                                          !.prediction = predictLocatorSuccess(model, c.element)],
                       heap |-> hp, historyRef |-> ref, saved |-> FALSE]
        historyKey == generateHistoryKey(c.failedLocator, c.url)
        Body(history, alternative) ==
            LET successfulHistory == {i \in 1..Len(history) :
                                         /\ history[i].healedLocator = alternative.locator
                                         /\ history[i].success}
                historicalBoost == IF successfulHistory # {} THEN 100 ELSE 0
                Typed(head) == IF head = NoStr THEN <<"u", "n", "k", "n", "o", "w", "n">>
                               ELSE head
                Heal(finalConfidence, autoApply) ==
                    [call |-> [c EXCEPT !.pc = "done", !.outcome = "ok", !.recordId = newId,
                                        !.decision = [healedLocator |-> alternative.locator,
                                                      confidence |-> finalConfidence,
                                                      autoApplied |-> autoApply,
                                                      requiresApproval |-> ~autoApply,
                                                      aiEnhanced |-> FALSE]],
                     heap |-> [hp EXCEPT ![c.history] =
                                  Append(@, [id |-> newId, originalLocator |-> c.failedLocator,
                                             healedLocator |-> alternative.locator,
                                             success |-> FALSE,
                                             confidence |-> finalConfidence,
                                             timestamp |-> time, url |-> c.url,
                                             elementType |-> Typed(SplitHead(alternative.locator)),
                                             rollback |-> NoRollback])],
                     historyRef |-> [key \in DOMAIN ref \cup {historyKey} |->
                                        IF key = historyKey THEN c.history ELSE ref[key]],
                     saved |-> TRUE]
                Decide1(finalConfidence) ==
                    IF finalConfidence >= cfg.confidenceThreshold
                    THEN Heal(finalConfidence, cfg.autoApproveHighConfidence)
                    ELSE IF c.k < Len(c.alternatives) THEN Predict(c.k + 1) ELSE Throw
            IN Decide1(Min2(1000, c.prediction + historicalBoost))
    IN IF c.pc = "generated"
       THEN (IF Len(c.alternatives) = 0 THEN Throw ELSE Predict(1))
       ELSE Body(hp[c.history], c.alternatives[c.k])

ResumeAutoHeal ==
    /\ \E i \in 1..Len(calls) :
         /\ calls[i].op = "autoHeal"
         /\ calls[i].pc # "done"
         /\ \E res \in {AutoHealStep(calls[i], heap, historyRef, mlModel, config, nextId, now)} :
              /\ calls' = [calls EXCEPT ![i] = res.call]
              /\ heap' = res.heap
              /\ historyRef' = res.historyRef
              /\ healingHistory' = Deref(res.historyRef, res.heap)
              /\ storage' = IF res.saved
                            THEN saveHistory(storage, Deref(res.historyRef, res.heap))
                            ELSE storage
              /\ nextId' = IF res.saved THEN nextId + 1 ELSE nextId
    /\ UNCHANGED <<prisma, activeRuns, requests, failureReports, strategies, now, config, mlModel, suggestions, aiEnabled, document, rejected, lastOp>>

\* recordHealingResult up to its first await: [call, heap, saved]
RecordOutcomeCall(hp, ref, cfg, time, healingId, success, found) ==
    LET call == [NoCall EXCEPT !.op = "recordOutcome", !.healingId = healingId,
                               !.success = success]
        pos == RecordPositions(Deref(ref, hp), healingId)
        Start(p) ==
            LET healingRecord == hp[ref[p[1]]][p[2]]
                hp1 == [hp EXCEPT ![ref[p[1]]][p[2]].success = success]
                history == HistoryOf(Deref(ref, hp1),
                              generateHistoryKey(healingRecord.originalLocator,
                                                 healingRecord.url))
                recentFailures == {i \in 1..Len(history) :
                                      /\ history[i].healedLocator = healingRecord.healedLocator
                                      /\ time - history[i].timestamp <= rollbackWindowDays
                                      /\ ~history[i].success}
            IN IF ~success /\ Cardinality(recentFailures) >= cfg.rollbackAfterFailures
               THEN \* await this.markLocatorUnreliable(healingRecord.healedLocator)
                    [call |-> [call EXCEPT !.pc = "marking",
                                           !.healedLocator = healingRecord.healedLocator],
                     heap |-> [hp1 EXCEPT ![ref[p[1]]][p[2]].rollback =
                                  [timestamp |-> time,
                                   reason |-> Cardinality(recentFailures)]],
                     saved |-> FALSE]
               ELSE \* this.saveHistory(); await this.findElementByLocator(...)
                    [call |-> [call EXCEPT !.pc = "located", !.found = found,
                                           !.healedLocator = healingRecord.healedLocator],
                     heap |-> hp1, saved |-> TRUE]
    IN IF pos = {}
       THEN [call |-> [call EXCEPT !.outcome = "RecordNotFound"], heap |-> hp, saved |-> FALSE]
       ELSE Start(CHOOSE q \in pos : TRUE)

CallRecordOutcome ==
    /\ Cardinality(UserCalls(calls)) < MaxCalls
    /\ \E healingId \in RecordIds(healingHistory) \cup {UnknownId}, success \in BOOLEAN :
         \E found \in (IF healingId \in RecordIds(healingHistory)
                       THEN findElementByLocator(document,
                                RecordById(healingHistory, healingId).healedLocator)
                       ELSE {NotFound}) :
         \E res \in {RecordOutcomeCall(heap, historyRef, config, now, healingId, success,
                                       found)} :
            /\ calls' = Append(calls, res.call)
            /\ heap' = res.heap
            /\ healingHistory' = Deref(historyRef, res.heap)
            /\ storage' = IF res.saved THEN saveHistory(storage, Deref(historyRef, res.heap))
                          ELSE storage
    /\ UNCHANGED <<prisma, activeRuns, requests, failureReports, strategies, now, nextId, config, mlModel, suggestions, aiEnabled, document, rejected,
                   historyRef, lastOp>>

\* recordHealingResult from an await to its return or throw: [call, mlModel, storage]
RecordOutcomeStep(c, hist, model, stor, time, found) ==
    LET Train(stor1, element) ==
            LET Trained(model1) ==
                    [call |-> [c EXCEPT !.pc = "done", !.outcome = "ok"],
                     mlModel |-> model1, storage |-> saveModel(stor1, model1)]
            IN Trained(mlModelTrain(model, <<[features |-> extractFeatures(element),
                                              label |-> IF c.success THEN 1 ELSE 0]>>))
        Finish(stor1, element) ==
            IF element.present THEN Train(stor1, element.element)
            ELSE [call |-> [c EXCEPT !.pc = "done", !.outcome = "ok"],
                  mlModel |-> model, storage |-> stor1]
        Marked(marked) ==
            IF marked.outcome # "ok"
            THEN [call |-> [c EXCEPT !.pc = "done", !.outcome = marked.outcome],
                  mlModel |-> model, storage |-> marked.storage]
            ELSE Finish(saveHistory(marked.storage, hist), found)
    IN IF c.pc = "marking"
       THEN Marked(markLocatorUnreliable(stor, c.healedLocator, time))
       ELSE Finish(stor, c.found)

ResumeRecordOutcome ==
    /\ \E i \in 1..Len(calls) :
         /\ calls[i].op = "recordOutcome"
         /\ calls[i].pc # "done"
         /\ \E found \in findElementByLocator(document, calls[i].healedLocator) :
            \E res \in {RecordOutcomeStep(calls[i], healingHistory, mlModel, storage, now,
                                          found)} :
              /\ calls' = [calls EXCEPT ![i] = res.call]
              /\ mlModel' = res.mlModel
              /\ storage' = res.storage
    /\ UNCHANGED <<prisma, activeRuns, requests, failureReports, strategies, now, nextId, config, healingHistory, suggestions, aiEnabled, document,
                   rejected, heap, historyRef, lastOp>>

\* SimpleMLModel.load(data)
load(model, data) ==
    IF data.present
    THEN [weights |-> data.value.weights, bias |-> data.value.bias,
          isTrained |-> data.value.isTrained]
    ELSE model

\* loadModel after `await chrome.storage.local.get('ai_healing_model')`
CompleteLoadModel ==
    /\ \E i \in 1..Len(calls) :
         /\ calls[i].op = "loadModel"
         /\ calls[i].pc # "done"
         /\ mlModel' = load(mlModel, calls[i].stored)
         /\ calls' = [calls EXCEPT ![i].pc = "done", ![i].outcome = "ok"]
    /\ UNCHANGED <<prisma, activeRuns, requests, failureReports, strategies, now, nextId, config, healingHistory, storage, suggestions, aiEnabled,
                   document, rejected, heap, historyRef, lastOp>>

\* loadHistory after `await chrome.storage.local.get('healing_history')`:
\* this.healingHistory = new Map(Object.entries(stored.healing_history))
CompleteLoadHistory ==
    /\ \E i \in 1..Len(calls) :
         /\ calls[i].op = "loadHistory"
         /\ calls[i].pc # "done"
         /\ calls' = [calls EXCEPT ![i].pc = "done", ![i].outcome = "ok"]
         /\ IF calls[i].stored.present
            THEN \E entries \in {calls[i].stored.value} :
                 \E order \in {CHOOSE f \in [1..Cardinality(DOMAIN entries) -> DOMAIN entries] :
                                  \A a, b \in DOMAIN f : a # b => f[a] # f[b]} :
                    /\ heap' = heap \o [n \in DOMAIN order |-> entries[order[n]]]
                    /\ historyRef' = [key \in DOMAIN entries |->
                                         Len(heap) + CHOOSE n \in DOMAIN order : order[n] = key]
                    /\ healingHistory' = entries
            ELSE UNCHANGED <<heap, historyRef, healingHistory>>
    /\ UNCHANGED <<prisma, activeRuns, requests, failureReports, strategies, now, nextId, config, mlModel, storage, suggestions, aiEnabled, document,
                   rejected, lastOp>>

NextAsync ==
    \/ CallAutoHeal
    \/ ResumeAutoHeal
    \/ CallRecordOutcome
    \/ ResumeRecordOutcome
    \/ CompleteLoadModel
    \/ CompleteLoadHistory

SpecAsync == InitAsync /\ [][NextAsync]_vars

(* ---------------------------------------------------------------------- *)
(* SelfHealingService: confidence under the strategy table in force        *)
(* ---------------------------------------------------------------------- *)
\* tables a caller hands to updateStrategyPriority: any numbers are accepted
StrategyTables ==
    { locatorStrategies,
      << [type |-> "xpath", priority |-> 2, stability |-> 400],
         [type |-> "testid", priority |-> 1, stability |-> 2000] >>,
      << [type |-> "css", priority |-> 1, stability |-> 1500],
         [type |-> "id", priority |-> 2, stability |-> 0] >>,
      << [type |-> "role", priority |-> 3, stability |-> 100],
         [type |-> "aria", priority |-> 1, stability |-> 1200] >>,
      << [type |-> "name", priority |-> 1, stability |-> 1000],
         [type |-> "placeholder", priority |-> 2, stability |-> 0] >> }

\* strategies.sort((a, b) => a.priority - b.priority)
SortByPriority(table) == SortSeq(table, LAMBDA a, b : a.priority < b.priority)

\* updateStrategyPriority(strategies)
UpdateStrategyPriority ==
    /\ \E table \in StrategyTables :
         /\ strategies' = SortByPriority(table)
         /\ storage' = [storage EXCEPT !.locator_strategies = Stored(SortByPriority(table))]
    /\ lastOp' = [NoOp EXCEPT !.op = "updateStrategyPriority", !.outcome = "ok"]
    /\ UNCHANGED <<prisma, activeRuns, requests, failureReports, heap, historyRef, calls, now, nextId, config, healingHistory, mlModel,
                   suggestions, aiEnabled, document, rejected>>

\* loadStrategies()
LoadStrategies ==
    /\ strategies' = IF storage.locator_strategies.present
                     THEN storage.locator_strategies.value ELSE strategies
    /\ lastOp' = [NoOp EXCEPT !.op = "loadStrategies", !.outcome = "ok"]
    /\ UNCHANGED <<prisma, activeRuns, requests, failureReports, heap, historyRef, calls, now, nextId, config, healingHistory, mlModel,
                   storage, suggestions, aiEnabled, document, rejected>>

StrategyTypes == {"testid", "id", "aria", "role", "name", "placeholder", "text", "css", "xpath"}

\* calculateConfidence(type, locator, element) for a locator findAlternativeLocator
\* has built for the element; lastOp.count is the confidence returned
CalculateConfidence ==
    /\ \E element \in Elements :
       \E type \in {t \in StrategyTypes : StrategyLocator(t, element) # NoStr} :
          lastOp' = [NoOp EXCEPT !.op = "scoreConfidence", !.outcome = "ok",
                                 !.type = type, !.element = element,
                                 !.locator = StrategyLocator(type, element),
                                 !.count = calculateConfidenceUnder(strategies, mlModel,
                                              aiEnabled, type,
                                              StrategyLocator(type, element), element)]
    /\ UNCHANGED <<prisma, activeRuns, requests, failureReports, strategies, heap, historyRef, calls, now, nextId, config, healingHistory,
                   mlModel, storage, suggestions, aiEnabled, document, rejected>>

(* ---------------------------------------------------------------------- *)
(* The candidate generators, each under its default strategy table         *)
(* ---------------------------------------------------------------------- *)
\* backend SelfHealingService.createDefaultStrategies: the rows it creates, as
\* findMany({ orderBy: { priority: 'asc' } }) returns them
backendDefaultStrategies == <<"id", "testid", "css", "xpath", "name">>

\* one case of the switch in the backend's findAlternativeLocator
backendStrategyLocator(strategy, element) ==
    LET testId == IF element.dataTestid # NoStr THEN element.dataTestid ELSE element.dataTest
        attr(nm, v) == <<"[">> \o nm \o <<"=", "\"">> \o v \o <<"\"", "]">>
    IN CASE strategy = "id" ->
              IF element.id # NoStr THEN <<"#">> \o element.id ELSE NoStr
         [] strategy = "testid" ->
              IF testId # NoStr
              THEN attr(<<"d", "a", "t", "a", "-", "t", "e", "s", "t", "i", "d">>, testId)
              ELSE NoStr
         [] strategy = "css" ->
              IF element.className # NoStr THEN <<".">> \o FirstClass(element.className)
              ELSE NoStr
         [] strategy = "name" ->
              IF element.name # NoStr THEN attr(<<"n", "a", "m", "e">>, element.name)
              ELSE NoStr
         [] strategy = "xpath" -> <<"/", "/">> \o toLowerCase(element.tagName)
         [] OTHER -> NoStr

\* backend findAlternativeLocator(element, strategies), from the k-th strategy on:
\* the first strategy that yields a locator returns it
RECURSIVE backendFindAlternativeLocator(_, _, _)
backendFindAlternativeLocator(element, strategyList, k) ==
    IF k > Len(strategyList) THEN [locator |-> NoStr, type |-> "none"]
    ELSE IF backendStrategyLocator(strategyList[k], element) # NoStr
         THEN [locator |-> backendStrategyLocator(strategyList[k], element),
               type |-> strategyList[k]]
         ELSE backendFindAlternativeLocator(element, strategyList, k + 1)

\* <input data-testid="t">, <input data-test="q" id="in">
ElTestOnly == [BaseElement EXCEPT !.tagName = <<"I", "N", "P", "U", "T">>,
                                  !.dataTestid = <<"t">>]
ElDataTest == [BaseElement EXCEPT !.tagName = <<"I", "N", "P", "U", "T">>,
                                  !.dataTest = <<"q">>, !.id = <<"i", "n">>]
GeneratorElements == Elements \cup {ElTestOnly, ElDataTest}
GeneratorVariants == {"aiService", "extension", "backend"}

\* the first candidate a generator produces for the element, before any scoring
FirstCandidate(variant, element) ==
    LET None == [locator |-> NoStr, type |-> "none"]
        FirstOfAi(list) == IF list = <<>> THEN None
                           ELSE [locator |-> list[1].locator, type |-> list[1].strategy]
        FirstOfExtension(list) == IF list = <<>> THEN None
                                  ELSE [locator |-> list[1].locator, type |-> list[1].type]
    IN CASE variant = "aiService" -> FirstOfAi(generateAlternativeLocators(element))
         [] variant = "extension" ->
              FirstOfExtension(StrategyLocators(UntrainedModel, FALSE, element, 1))
         [] variant = "backend" ->
              backendFindAlternativeLocator(element, backendDefaultStrategies, 1)

\* one of the generators is run on an element
GenerateLocators ==
    /\ \E variant \in GeneratorVariants, element \in GeneratorElements :
         \E first \in {FirstCandidate(variant, element)} :
            lastOp' = [NoOp EXCEPT !.op = "generate", !.outcome = "ok", !.inner = variant,
                                   !.element = element, !.locator = first.locator,
                                   !.type = first.type]
    /\ UNCHANGED <<prisma, activeRuns, requests, failureReports, strategies, heap, historyRef, calls, now, nextId, config, healingHistory,
                   mlModel, storage, suggestions, aiEnabled, document, rejected>>

\* one candidate of generateAlternativeLocators(element) is classified the way
\* getHealingStatistics classifies the healedLocator of a record
ExtractStrategy ==
    /\ \E element \in GeneratorElements :
         \E k \in 1..Len(generateAlternativeLocators(element)) :
            \E candidate \in {generateAlternativeLocators(element)[k]} :
               lastOp' = [NoOp EXCEPT !.op = "extractStrategy", !.outcome = "ok",
                                      !.element = element, !.locator = candidate.locator,
                                      !.type = candidate.strategy,
                                      !.inner = extractStrategyFromLocator(candidate.locator)]
    /\ UNCHANGED <<prisma, activeRuns, requests, failureReports, strategies, heap, historyRef, calls, now, nextId, config, healingHistory,
                   mlModel, storage, suggestions, aiEnabled, document, rejected>>

NextScore ==
    \/ UpdateStrategyPriority
    \/ LoadStrategies
    \/ SetAIEnabled
    \/ CalculateConfidence
    \/ GenerateLocators
    \/ ExtractStrategy

SpecScore == Init /\ [][NextScore]_vars

(* ---------------------------------------------------------------------- *)
(* The operations when the learned model throws                            *)
(* ---------------------------------------------------------------------- *)
\* autoHealLocator when extractFeatures or predict throws inside
\* predictLocatorSuccess: the loop has no try, the first iteration rejects the call
AiAutoHealThrowing(hist, cfg, failedLocator, element, url) ==
    IF ~cfg.enabled
    THEN [outcome |-> "HealingDisabled", decision |-> NoDecision, healingHistory |-> hist]
    ELSE IF generateAlternativeLocators(element) = <<>>
    THEN [outcome |-> "NoSuitableLocator", decision |-> NoDecision, healingHistory |-> hist]
    ELSE [outcome |-> "ModelUnavailable", decision |-> NoDecision, healingHistory |-> hist]

\* recordHealingResult when extractFeatures or train throws: the record has been
\* updated and the history saved by then, the model is left as it was
AiRecordHealingResultThrowing(hist, model, cfg, stor, time, healingId, success, found) ==
    LET Thrown(updated) ==
            IF updated.outcome = "ok" /\ found.present
            THEN [updated EXCEPT !.outcome = "ModelUnavailable"]
            ELSE updated
    IN Thrown(AiRecordHealingResult(hist, model, cfg, stor, time, healingId, success,
                                    NotFound))

AutoHealLocatorModelThrows ==
    /\ \E failedLocator \in FailedLocators, element \in FailedElements, url \in Urls :
        \E res \in {AiAutoHealThrowing(healingHistory, config, failedLocator, element, url)} :
           lastOp' = [Returned("autoHeal", res, failedLocator, element, url)
                         EXCEPT !.inner = "ModelUnavailable"]
    /\ UNCHANGED <<prisma, activeRuns, requests, failureReports, strategies, heap, historyRef, calls, now, nextId, config, healingHistory,
                   mlModel, storage, suggestions, aiEnabled, document, rejected>>

RecordHealingResultModelThrows ==
    /\ \E healingId \in RecordIds(healingHistory), success \in BOOLEAN :
         /\ success \/ FailureStreak(lastOp, healingId) <= MaxReports
         /\ \E found \in findElementByLocator(document,
                             RecordById(healingHistory, healingId).healedLocator) :
            \E res \in {AiRecordHealingResultThrowing(healingHistory, mlModel, config, storage,
                                                     now, healingId, success, found)} :
               /\ healingHistory' = res.healingHistory
               /\ storage' = res.storage
               /\ lastOp' = [NoOp EXCEPT !.op = "recordOutcome", !.outcome = res.outcome,
                                         !.healingId = healingId, !.success = success,
                                         !.inner = "ModelUnavailable",
                                         !.count = IF success THEN 0
                                                   ELSE FailureStreak(lastOp, healingId)]
    /\ UNCHANGED <<prisma, activeRuns, requests, failureReports, strategies, heap, historyRef, calls, now, nextId, config, mlModel,
                   suggestions, aiEnabled, document, rejected>>

\* calculateConfidence when aiSelfHealingService.predictLocatorSuccess throws:
\* the catch keeps the traditional score
CalculateConfidenceModelThrows ==
    /\ aiEnabled
    /\ \E element \in Elements :
       \E type \in {t \in StrategyTypes : StrategyLocator(t, element) # NoStr} :
          lastOp' = [NoOp EXCEPT !.op = "scoreConfidence", !.outcome = "ok",
                                 !.inner = "ModelUnavailable",
                                 !.type = type, !.element = element,
                                 !.locator = StrategyLocator(type, element),
                                 !.count = calculateConfidenceUnder(strategies, mlModel,
                                              FALSE, type,
                                              StrategyLocator(type, element), element)]
    /\ UNCHANGED <<prisma, activeRuns, requests, failureReports, strategies, heap, historyRef, calls, now, nextId, config, healingHistory,
                   mlModel, storage, suggestions, aiEnabled, document, rejected>>

NextFail ==
    \/ AutoHealLocator
    \/ Navigate
    \/ AutoHealLocatorModelThrows
    \/ RecordHealingResultModelThrows
    \/ CalculateConfidenceModelThrows

SpecFail == Init /\ [][NextFail]_vars

(* ---------------------------------------------------------------------- *)
(* DDTService.substituteVariables (backend ddt.service.ts)                 *)
(* ---------------------------------------------------------------------- *)
\* the values of a data row: strings and numbers
StrValue(s) == [isNumber |-> FALSE, n |-> 0, s |-> s]
NumValue(n) == [isNumber |-> TRUE, n |-> n, s |-> NoStr]

\* String(v)
StringOf(v) == IF v.isNumber THEN NatToStr(v.n) ELSE v.s

\* String(v || ''): 0 and '' are falsy
StringOrEmpty(v) == IF v.isNumber /\ v.n = 0 THEN NoStr ELSE StringOf(v)

\* `${key}`
Placeholder(key) == <<"$", "{">> \o key \o <<"}">>

MatchesAt(s, p, i) == i + Len(p) - 1 <= Len(s) /\ SubSeq(s, i, i + Len(p) - 1) = p

\* the replacement patterns of String.prototype.replace: $$ is a dollar sign,
\* $& the matched text, any other character stands for itself
RECURSIVE ExpandReplacement(_, _, _)
ExpandReplacement(r, matched, i) ==
    IF i > Len(r) THEN <<>>
    ELSE IF MatchesAt(r, <<"$", "$">>, i) THEN <<"$">> \o ExpandReplacement(r, matched, i + 2)
    ELSE IF MatchesAt(r, <<"$", "&">>, i) THEN matched \o ExpandReplacement(r, matched, i + 2)
    ELSE <<r[i]>> \o ExpandReplacement(r, matched, i + 1)

\* result.replace(new RegExp(`\\$\\{${key}\\}`, 'g'), replacement), from position i
RECURSIVE ReplaceAll(_, _, _, _)
ReplaceAll(s, p, r, i) ==
    IF i > Len(s) THEN <<>>
    ELSE IF MatchesAt(s, p, i)
         THEN ExpandReplacement(r, p, 1) \o ReplaceAll(s, p, r, i + Len(p))
         ELSE <<s[i]>> \o ReplaceAll(s, p, r, i + 1)

\* substituteVariables(template, data); data lists the entries of the row in
\* the order of Object.keys(data)
RECURSIVE substituteVariables(_, _)
substituteVariables(template, data) ==
    IF data = <<>> THEN template
    ELSE substituteVariables(ReplaceAll(template, Placeholder(Head(data).key),
                                        StringOrEmpty(Head(data).value), 1),
                             Tail(data))

\* inputs: templates of at most MaxTokens pieces, rows over two columns
VariableNames == {<<"a">>, <<"b">>}
TemplateTokens == {<<"H">>} \cup {Placeholder(name) : name \in VariableNames}
RECURSIVE TemplatesOf(_)
TemplatesOf(n) ==
    IF n = 0 THEN {<<>>}
    ELSE TemplatesOf(n - 1) \cup {t \o tok : t \in TemplatesOf(n - 1), tok \in TemplateTokens}
RowValues == {StrValue(<<"J">>), NumValue(0), NumValue(7), StrValue(Placeholder(<<"b">>))}
DataRows ==
    {<<>>}
    \cup {<<[key |-> k, value |-> v]>> : k \in VariableNames, v \in RowValues}
    \cup {<<[key |-> k1, value |-> v1], [key |-> k2, value |-> v2]>> :
             k1 \in VariableNames, k2 \in VariableNames, v1 \in RowValues, v2 \in RowValues}

\* a call of ddtService.substituteVariables(template, data) about to be made
InitDdt ==
    /\ now = 0
    /\ nextId = 1
    /\ config = DefaultConfig
    /\ healingHistory = EmptyMap
    /\ mlModel = UntrainedModel
    /\ storage = EmptyStorage
    /\ suggestions = EmptyMap
    /\ aiEnabled = TRUE
    /\ document = {}
    /\ rejected = {}
    /\ heap = <<>>
    /\ historyRef = EmptyMap
    /\ calls = <<>>
    /\ strategies = locatorStrategies
    /\ failureReports = EmptyMap
    /\ prisma = EmptyDatabase
    /\ activeRuns = {}
    /\ requests = <<>>
    /\ \E template \in TemplatesOf(MaxTokens), data \in DataRows :
         /\ \A i, j \in DOMAIN data : i # j => data[i].key # data[j].key
         /\ lastOp = [NoOp EXCEPT !.op = "call", !.template = template, !.data = data]

\* ddtService.substituteVariables(template, data)
SubstituteVariables ==
    /\ lastOp.op = "call"
    /\ lastOp' = [lastOp EXCEPT !.op = "substituteVariables", !.outcome = "ok",
                                !.result = substituteVariables(lastOp.template, lastOp.data)]
    /\ UNCHANGED <<prisma, activeRuns, requests, failureReports, strategies, heap, historyRef, calls, now, nextId, config, healingHistory,
                   mlModel, storage, suggestions, aiEnabled, document, rejected>>

NextDdt == SubstituteVariables

SpecDdt == InitDdt /\ [][NextDdt]_vars

(* ---------------------------------------------------------------------- *)
(* AISelfHealingService under changing policy, with what callers reported  *)
(* ---------------------------------------------------------------------- *)
\* updateConfig arguments that change one policy field each
PolicyPatches ==
    << [requireUserApproval |-> TRUE],
       [rollbackAfterFailures |-> 2],
       [autoApproveHighConfidence |-> FALSE],
       [confidenceThreshold |-> 900] >>

\* aiSelfHealingService.updateConfig(newConfig)
UpdatePolicy ==
    /\ \E i \in 1..Len(PolicyPatches) :
        /\ config' = MergeConfig(config, PolicyPatches[i])
        /\ storage' = [storage EXCEPT !.ai_healing_config = Stored(config')]
    /\ lastOp' = [NoOp EXCEPT !.op = "updateConfig", !.outcome = "ok"]
    /\ UNCHANGED <<prisma, activeRuns, requests, failureReports, strategies, heap, historyRef, calls, now, nextId,
                   healingHistory, mlModel, suggestions, aiEnabled, document, rejected>>

\* the failure outcomes reported so far for a record
ReportsOf(reports, healingId) ==
    IF healingId \in DOMAIN reports THEN reports[healingId] ELSE 0

\* aiSelfHealingService.recordHealingResult(healingId, success, error), the
\* caller keeping count of the failures it has reported
ReportOutcome ==
    /\ \E healingId \in RecordIds(healingHistory), success \in BOOLEAN :
         /\ success \/ ReportsOf(failureReports, healingId) < MaxReports
         /\ \E found \in findElementByLocator(document,
                             RecordById(healingHistory, healingId).healedLocator) :
            \E res \in {AiRecordHealingResult(healingHistory, mlModel, config, storage, now,
                                             healingId, success, found)} :
               /\ healingHistory' = res.healingHistory
               /\ mlModel' = res.mlModel
               /\ storage' = res.storage
               /\ lastOp' = [NoOp EXCEPT !.op = "recordOutcome", !.outcome = res.outcome,
                                         !.healingId = healingId, !.success = success]
         /\ failureReports' =
               IF success THEN failureReports
               ELSE [id \in DOMAIN failureReports \cup {healingId} |->
                        IF id = healingId THEN ReportsOf(failureReports, healingId) + 1
                        ELSE failureReports[id]]
    /\ UNCHANGED <<prisma, activeRuns, requests, strategies, heap, historyRef, calls, now, nextId, config, suggestions,
                   aiEnabled, document, rejected>>

RECURSIVE SumConfidence(_)
SumConfidence(records) ==
    IF records = {} THEN 0
    ELSE LET r == CHOOSE x \in records : TRUE
         IN r.confidence + SumConfidence(records \ {r})

\* getHealingStatistics() over the records of every context, rates in
\* thousandths; topStrategies as the set of its entries (no more than five
\* strategies occur within MaxRecords records, so slice(0, 5) keeps them all)
getHealingStatistics(allHealings, cfg) ==
    LET totalHealings == Cardinality(allHealings)
        Rate(part) == IF totalHealings > 0 THEN (1000 * Cardinality(part)) \div totalHealings
                      ELSE 0
        Of(strategy) == {h \in allHealings :
                            extractStrategyFromLocator(h.healedLocator) = strategy}
    IN [totalHealings |-> totalHealings,
        successRate |-> Rate({h \in allHealings : h.success}),
        autoHealRate |-> Rate({h \in allHealings : h.confidence >= cfg.confidenceThreshold}),
        rollbackRate |-> Rate({h \in allHealings : h.rollback # NoRollback}),
        averageConfidence |-> IF totalHealings > 0
                              THEN SumConfidence(allHealings) \div totalHealings ELSE 0,
        topStrategies |->
            {[strategy |-> extractStrategyFromLocator(h.healedLocator),
              count |-> Cardinality(Of(extractStrategyFromLocator(h.healedLocator))),
              successRate |->
                  (1000 * Cardinality({x \in Of(extractStrategyFromLocator(h.healedLocator)) :
                                          x.success}))
                      \div Cardinality(Of(extractStrategyFromLocator(h.healedLocator)))] :
             h \in allHealings}]

\* aiSelfHealingService.getHealingStatistics()
GetHealingStatistics ==
    /\ lastOp.op # "getStatistics"
    /\ \E res \in {getHealingStatistics(AllRecords(healingHistory), config)} :
          lastOp' = [NoOp EXCEPT !.op = "getStatistics", !.outcome = "ok",
                                 !.decision = lastOp.decision, !.statistics = res]
    /\ UNCHANGED <<prisma, activeRuns, requests, failureReports, strategies, heap, historyRef, calls, now, nextId, config, healingHistory,
                   mlModel, storage, suggestions, aiEnabled, document, rejected>>

NextPolicy ==
    \/ AutoHealLocator
    \/ ReportOutcome
    \/ UpdatePolicy
    \/ GetHealingStatistics

SpecPolicy == Init /\ [][NextPolicy]_vars

(* ---------------------------------------------------------------------- *)
(* Backend: SelfHealingService.recordFailure and TestRunnerService         *)
(* ---------------------------------------------------------------------- *)
MaxRequests == 3
MaxSteps == 1

\* arguments of the backend calls
BackendScripts == {"script1"}
BrokenLocators == {<<"#", "a">>, <<"#", "b">>}
BackendValidLocators == {[present |-> FALSE, locator |-> NoStr],
                         [present |-> TRUE, locator |-> <<"#", "o", "k">>]}
ScriptSteps == 0..MaxSteps

NoRow == [present |-> FALSE, id |-> 0, timesUsed |-> 0]
NoRequest == [op |-> "none", pc |-> "done", outcome |-> "none",
              scriptId |-> "", brokenLocator |-> NoStr,
              validLocator |-> [present |-> FALSE, locator |-> NoStr], existing |-> NoRow,
              testRunId |-> "", scriptFound |-> FALSE, steps |-> 0, stepNumber |-> 0]

\* a database whose schema does or does not declare the triple unique: the
\* service code names no constraint and the schema is not part of the sources
Databases == {[EmptyDatabase EXCEPT !.uniqueTriple = u] : u \in BOOLEAN}

InitBackend ==
    /\ now = 0
    /\ nextId = 1
    /\ config = DefaultConfig
    /\ healingHistory = EmptyMap
    /\ mlModel = UntrainedModel
    /\ storage = EmptyStorage
    /\ suggestions = EmptyMap
    /\ aiEnabled = TRUE
    /\ document = {}
    /\ rejected = {}
    /\ heap = <<>>
    /\ historyRef = EmptyMap
    /\ calls = <<>>
    /\ strategies = locatorStrategies
    /\ failureReports = EmptyMap
    /\ prisma \in Databases
    /\ activeRuns = {}
    /\ requests = <<>>
    /\ lastOp = NoOp

\* the rows of the triple, in table order
RowsOfTriple(rows, scriptId, brokenLocator, validLocator) ==
    {k \in 1..Len(rows) : /\ rows[k].scriptId = scriptId
                          /\ rows[k].brokenLocator = brokenLocator
                          /\ rows[k].validLocator = validLocator}

\* prisma.selfHealingLocator.findFirst({where: {scriptId, brokenLocator, validLocator}})
findFirst(rows, scriptId, brokenLocator, validLocator) ==
    LET First(ks) == IF ks = {} THEN NoRow
                     ELSE LET k == CHOOSE x \in ks : \A y \in ks : x <= y
                          IN [present |-> TRUE, id |-> rows[k].id,
                              timesUsed |-> rows[k].timesUsed]
    IN First(RowsOfTriple(rows, scriptId, brokenLocator, validLocator))

\* recordFailure from one await to the next, or to its return or throw:
\* [request, prisma]
RecordFailureStep(r, db) ==
    LET rows == db.selfHealingLocator
        Found(existing) ==
            [request |-> [r EXCEPT !.existing = existing,
                                   !.pc = IF existing.present THEN "update" ELSE "create"],
             prisma |-> db]
        Updated ==
            [request |-> [r EXCEPT !.pc = "done", !.outcome = "existing"],
             prisma |-> [db EXCEPT !.selfHealingLocator =
                            [k \in 1..Len(rows) |->
                                IF rows[k].id = r.existing.id
                                THEN [rows[k] EXCEPT !.timesUsed = r.existing.timesUsed + 1]
                                ELSE rows[k]]]]
        Created ==
            IF db.uniqueTriple
               /\ RowsOfTriple(rows, r.scriptId, r.brokenLocator, r.validLocator.locator) # {}
            THEN [request |-> [r EXCEPT !.pc = "done", !.outcome = "error"], prisma |-> db]
            ELSE [request |-> [r EXCEPT !.pc = "done", !.outcome = "created"],
                  prisma |-> [db EXCEPT !.selfHealingLocator =
                                 Append(rows, [id |-> Len(rows) + 1, scriptId |-> r.scriptId,
                                               brokenLocator |-> r.brokenLocator,
                                               validLocator |-> r.validLocator.locator,
                                               timesUsed |-> 0, status |-> "pending"])]]
    IN CASE r.pc = "findFirst" ->
              Found(findFirst(rows, r.scriptId, r.brokenLocator, r.validLocator.locator))
         [] r.pc = "update" -> Updated
         [] OTHER -> Created

\* selfHealingService.recordFailure(scriptId, brokenLocator, validLocator) up to
\* its first await; without a validLocator it returns null
CallRecordFailure ==
    /\ Len(requests) < MaxRequests
    /\ \E scriptId \in BackendScripts, brokenLocator \in BrokenLocators,
          validLocator \in BackendValidLocators :
          requests' = Append(requests,
              [NoRequest EXCEPT !.op = "recordFailure",
                                !.pc = IF validLocator.present THEN "findFirst" ELSE "done",
                                !.outcome = IF validLocator.present THEN "none" ELSE "null",
                                !.scriptId = scriptId, !.brokenLocator = brokenLocator,
                                !.validLocator = validLocator])
    /\ UNCHANGED <<prisma, activeRuns, failureReports, strategies, heap, historyRef, calls, now, nextId,
                   config, healingHistory, mlModel, storage, suggestions, aiEnabled, document,
                   rejected, lastOp>>

\* a recordFailure call goes on after the query it awaited
ResumeRecordFailure ==
    /\ \E i \in 1..Len(requests) :
         /\ requests[i].op = "recordFailure"
         /\ requests[i].pc # "done"
         /\ \E res \in {RecordFailureStep(requests[i], prisma)} :
               /\ requests' = [requests EXCEPT ![i] = res.request]
               /\ prisma' = res.prisma
    /\ UNCHANGED <<activeRuns, failureReports, strategies, heap, historyRef, calls, now, nextId,
                   config, healingHistory, mlModel, storage, suggestions, aiEnabled, document,
                   rejected, lastOp>>

NextRecord == CallRecordFailure \/ ResumeRecordFailure

SpecRecord == InitBackend /\ [][NextRecord]_vars

\* startTestRun from one await to the next, or to its end: [request, prisma,
\* activeRuns]. updated tells whether prisma.testStep.update found the row it
\* names, `${testRunId}-${stepNumber}`; create leaves the id of the row to the
\* database
StartTestRunStep(r, db, active, updated) ==
    LET Go(pc) == [request |-> [r EXCEPT !.pc = pc], prisma |-> db, activeRuns |-> active]
        Finished(status) ==
            [request |-> [r EXCEPT !.pc = "done", !.outcome = status],
             prisma |-> [db EXCEPT !.testRun[r.testRunId] = status],
             activeRuns |-> active \ {r.testRunId}]
    IN CASE r.pc = "setRunning" ->
              [request |-> [r EXCEPT !.pc = "findScript"],
               prisma |-> [db EXCEPT !.testRun[r.testRunId] = "running"],
               activeRuns |-> active]
         [] r.pc = "findScript" ->
              IF ~r.scriptFound THEN Go("setFailed")
              ELSE IF r.steps = 0 THEN Go("setPassed")
              ELSE [request |-> [r EXCEPT !.pc = "createStep", !.stepNumber = 1],
                    prisma |-> db, activeRuns |-> active]
         [] r.pc = "createStep" ->
              [request |-> [r EXCEPT !.pc = "wait"],
               prisma |-> [db EXCEPT !.testStep =
                              Append(@, [testRunId |-> r.testRunId,
                                         stepNumber |-> r.stepNumber, status |-> "running"])],
               activeRuns |-> active]
         [] r.pc = "wait" -> Go("updateStep")
         [] r.pc = "updateStep" ->
              IF ~updated THEN Go("setFailed")
              ELSE [request |-> IF r.stepNumber < r.steps
                                THEN [r EXCEPT !.pc = "createStep", !.stepNumber = @ + 1]
                                ELSE [r EXCEPT !.pc = "setPassed"],
                    prisma |-> [db EXCEPT !.testStep =
                                   [k \in 1..Len(db.testStep) |->
                                       IF /\ db.testStep[k].testRunId = r.testRunId
                                          /\ db.testStep[k].stepNumber = r.stepNumber
                                       THEN [db.testStep[k] EXCEPT !.status = "passed"]
                                       ELSE db.testStep[k]]],
                    activeRuns |-> active]
         [] r.pc = "setPassed" -> Finished("passed")
         [] OTHER -> Finished("failed")

\* testRunnerService.startTestRun(testRunId, scriptId, userId) up to its first
\* await, for a run that has not been started before
StartTestRun ==
    /\ Len(requests) < MaxRequests
    /\ \E testRunId \in TestRunIds, scriptFound \in BOOLEAN, steps \in ScriptSteps :
         /\ \A i \in 1..Len(requests) :
               ~(requests[i].op = "startTestRun" /\ requests[i].testRunId = testRunId)
         /\ activeRuns' = activeRuns \cup {testRunId}
         /\ requests' = Append(requests,
                [NoRequest EXCEPT !.op = "startTestRun", !.pc = "setRunning",
                                  !.testRunId = testRunId, !.scriptFound = scriptFound,
                                  !.steps = steps])
    /\ UNCHANGED <<prisma, failureReports, strategies, heap, historyRef, calls, now, nextId,
                   config, healingHistory, mlModel, storage, suggestions, aiEnabled, document,
                   rejected, lastOp>>

\* a startTestRun call goes on after what it awaited
ResumeStartTestRun ==
    /\ \E i \in 1..Len(requests) :
         /\ requests[i].op = "startTestRun"
         /\ requests[i].pc # "done"
         /\ \E updated \in (IF requests[i].pc = "updateStep" THEN BOOLEAN ELSE {TRUE}) :
            \E res \in {StartTestRunStep(requests[i], prisma, activeRuns, updated)} :
               /\ requests' = [requests EXCEPT ![i] = res.request]
               /\ prisma' = res.prisma
               /\ activeRuns' = res.activeRuns
    /\ UNCHANGED <<failureReports, strategies, heap, historyRef, calls, now, nextId,
                   config, healingHistory, mlModel, storage, suggestions, aiEnabled, document,
                   rejected, lastOp>>

\* testRunnerService.stopTestRun(testRunId) up to its await; a run that is
\* not active is left alone
StopTestRun ==
    /\ Len(requests) < MaxRequests
    /\ \E testRunId \in TestRunIds :
         requests' = Append(requests,
             [NoRequest EXCEPT !.op = "stopTestRun",
                               !.pc = IF testRunId \in activeRuns THEN "setCancelled"
                                      ELSE "done",
                               !.outcome = IF testRunId \in activeRuns THEN "none"
                                           ELSE "notActive",
                               !.testRunId = testRunId])
    /\ UNCHANGED <<prisma, activeRuns, failureReports, strategies, heap, historyRef, calls, now,
                   nextId, config, healingHistory, mlModel, storage, suggestions, aiEnabled,
                   document, rejected, lastOp>>

\* stopTestRun after `await prisma.testRun.update({status: 'cancelled'})`
ResumeStopTestRun ==
    /\ \E i \in 1..Len(requests) :
         /\ requests[i].op = "stopTestRun"
         /\ requests[i].pc # "done"
         /\ requests' = [requests EXCEPT ![i].pc = "done", ![i].outcome = "cancelled"]
         /\ prisma' = [prisma EXCEPT !.testRun[requests[i].testRunId] = "cancelled"]
         /\ activeRuns' = activeRuns \ {requests[i].testRunId}
    /\ UNCHANGED <<failureReports, strategies, heap, historyRef, calls, now, nextId,
                   config, healingHistory, mlModel, storage, suggestions, aiEnabled, document,
                   rejected, lastOp>>

NextRunner == StartTestRun \/ ResumeStartTestRun \/ StopTestRun \/ ResumeStopTestRun

SpecRunner == InitBackend /\ [][NextRunner]_vars

(* ---------------------------------------------------------------------- *)
(* Rollback and candidate choice in AISelfHealingService (Spec)            *)
(* ---------------------------------------------------------------------- *)
\* the record a recordOutcome call was about
ReportedRecord == RecordById(healingHistory, lastOp.healingId)

\* C1: with rollbackAfterFailures = 3, when the third failure in a row has been
\* reported through recordOutcome for one healing record, all within 7 days,
\* that record carries a rollback stamp
C1_ThirdFailureRollsBack ==
    (/\ lastOp.op = "recordOutcome"
     /\ ~lastOp.success
     /\ lastOp.count >= 3
     /\ config.rollbackAfterFailures = 3)
    => ReportedRecord.rollback # NoRollback

\* the records of the context the last autoHeal call was made for
ContextRecords ==
    {r \in AllRecords(healingHistory) : r.originalLocator = lastOp.locator /\ r.url = lastOp.url}

\* C2: a decision returned by autoHeal never carries a healedLocator that a
\* rolled-back record of the same context (originalLocator + url) carries
C2_RolledBackNeverSuggested ==
    (lastOp.op = "autoHeal" /\ lastOp.outcome = "ok")
    => \A r \in ContextRecords :
           r.rollback # NoRollback => r.healedLocator # lastOp.decision.healedLocator

\* the final confidences of the candidates generated for the element of the last
\* autoHeal call (the record the call appended has success = false and adds no boost)
CandidateConfidences ==
    LET alternatives == generateAlternativeLocators(lastOp.element)
        history == HistoryOf(healingHistory, generateHistoryKey(lastOp.locator, lastOp.url))
    IN {FinalConfidence(history, mlModel, lastOp.element, alternatives[i].locator) :
           i \in 1..Len(alternatives)}

\* C5: the locator of a returned decision has the greatest final confidence
\* among the candidates generated for the element in the context
C5_ReturnedHasMaxConfidence ==
    (lastOp.op = "autoHeal" /\ lastOp.outcome = "ok")
    => \A c \in CandidateConfidences : c <= lastOp.decision.confidence


(* ---------------------------------------------------------------------- *)
(* The wrappers around the AI service (SpecWrap)                           *)
(* ---------------------------------------------------------------------- *)
\* the last call was an autoHeal through one of the wrappers
WrappedHeal == lastOp.op \in {"serviceAutoHeal", "attemptAutoHealing"}

\* ... and it produced a healing decision
WrappedDecision ==
    \/ lastOp.op = "serviceAutoHeal" /\ lastOp.outcome = "ok"
    \/ lastOp.op = "attemptAutoHealing" /\ lastOp.outcome = "healed"

\* C3: while config.enabled is false, an autoHeal call through the
\* SelfHealingService wrapper or through RealDataIntegration fails with
\* HealingDisabled and yields no healing decision
C3_DisabledAlwaysFails ==
    (WrappedHeal /\ ~config.enabled)
    => /\ ~WrappedDecision
       /\ lastOp.decision = NoDecision
       /\ "HealingDisabled" \in {lastOp.outcome, lastOp.inner}

\* C4: with healing enabled, autoHeal through the wrapper returns a decision
\* exactly when some generated candidate has final confidence >= the threshold,
\* fails with NoSuitableLocator otherwise, and never returns a decision whose
\* confidence is below the threshold
C4_DecisionIffThresholdCleared ==
    (lastOp.op = "serviceAutoHeal" /\ config.enabled)
    => /\ lastOp.outcome = "ok"
            <=> \E c \in CandidateConfidences : c >= config.confidenceThreshold
       /\ lastOp.outcome # "ok" => lastOp.outcome = "NoSuitableLocator"
       /\ lastOp.outcome = "ok" => lastOp.decision.confidence >= config.confidenceThreshold

\* the decision came from the AI service: passed through by the wrapper, or
\* applied by RealDataIntegration straight from the AI service
FromAiService ==
    \/ lastOp.op = "serviceAutoHeal" /\ lastOp.decision.aiEnhanced
    \/ lastOp.op = "attemptAutoHealing" /\ lastOp.decision.aiEnhanced
    \/ lastOp.op = "attemptAutoHealing" /\ lastOp.decision.autoApplied

C7_UnknownIdSurfaced ==
    [][(lastOp'.op = "serviceRecordOutcome" /\ lastOp'.healingId \notin RecordIds(healingHistory))
       => /\ lastOp'.outcome = "RecordNotFound"
          /\ UNCHANGED <<healingHistory, suggestions, mlModel>>]_vars

(* ---------------------------------------------------------------------- *)
(* The suggestion store of SelfHealingService (SpecSugg)                   *)
(* ---------------------------------------------------------------------- *)
\* the suggestions chrome.storage.local holds, over all scripts
StoredSuggestions == AllSuggestions(storage.healing_suggestions)

\* C8: a cleanupSuggestions(daysOld) call removes, from the service's list and
\* from storage, only suggestions that are rejected and were created before the
\* cutoff (now - daysOld), hence none that is pending or approved and none
\* younger than daysOld; the number it returns is the number it removed
C8_CleanupRemovesOnlyOldRejected ==
    [][lastOp'.op = "cleanup"
       => LET cutoffDate == now - lastOp'.daysOld
              removed == {x \in AllSuggestions(suggestions) :
                             x.id \notin SuggestionIds(suggestions')}
              unstored == {x \in StoredSuggestions :
                              x.id \notin {y.id : y \in StoredSuggestions'}}
          IN /\ \A x \in removed \cup unstored :
                    x.status = "rejected" /\ x.createdAt < cutoffDate
             /\ lastOp'.count = Cardinality(removed)]_vars

\* C8 witness: cleanup has run over a pending or approved suggestion created
\* before the cutoff, which is still there
C8_OldSuggestionKept ==
    /\ lastOp.op = "cleanup"
    /\ \E x \in AllSuggestions(suggestions) :
           /\ x.createdAt < now - lastOp.daysOld
           /\ x.status \in {"pending", "approved"}

\* C9: once cleanupSuggestions(d) has completed, getSuggestions returns no
\* suggestion that rejectSuggestion has rejected and that was created more
\* than d days ago
C9_OldRejectedGone ==
    lastOp.op = "cleanup"
    => \A i \in 1..Len(getSuggestions(storage)) :
           ~(/\ getSuggestions(storage)[i].id \in rejected
             /\ getSuggestions(storage)[i].createdAt < now - lastOp.daysOld)

\* C10: approved and rejected are terminal: an approveSuggestion or
\* rejectSuggestion call leaves the status of every suggestion that is already
\* approved or rejected as it is
C10_DecidedIsTerminal ==
    [][lastOp'.op \in {"approve", "reject"}
       => \A x \in StoredSuggestions : \A y \in StoredSuggestions' :
              (x.id = y.id /\ x.status \in {"approved", "rejected"})
                  => y.status = x.status]_vars


(* ---------------------------------------------------------------------- *)
(* Rollback stamps over repeated reports (Spec)                            *)
(* ---------------------------------------------------------------------- *)
\* C11: a record's rollback is set at most once: once a record carries a
\* rollback stamp, no later recordOutcome call changes that stamp
C11_RollbackSetOnce ==
    [][lastOp'.op = "recordOutcome" =>
          \A r \in AllRecords(healingHistory) : \A r2 \in AllRecords(healingHistory') :
             (r.id = r2.id /\ r.rollback # NoRollback) => r2.rollback = r.rollback]_vars


(* ---------------------------------------------------------------------- *)
(* Overlapping calls and the constructor's loads (SpecAsync)               *)
(* ---------------------------------------------------------------------- *)
\* the autoHeal calls, made after the constructor's loads had completed, that
\* have returned a decision
Healed ==
    {i \in UserCalls(calls) : /\ calls[i].op = "autoHeal"
                              /\ calls[i].settled
                              /\ calls[i].pc = "done"
                              /\ calls[i].outcome = "ok"}

\* where in the history of its context the record of a call is (0: nowhere)
RecordIndex(c) ==
    LET Index(history) ==
            LET at == {n \in 1..Len(history) : history[n].id = c.recordId}
            IN IF at = {} THEN 0 ELSE CHOOSE n \in at : TRUE
    IN Index(HistoryOf(healingHistory, generateHistoryKey(c.failedLocator, c.url)))

\* C12: when two autoHeal calls for the same context have both returned a
\* decision, the history of the context holds the records of both, the record
\* of the earlier call before that of the later one
C12_OverlappingCallsKeepBothRecords ==
    \A i \in Healed : \A j \in Healed :
        (/\ i < j
         /\ calls[i].failedLocator = calls[j].failedLocator
         /\ calls[i].url = calls[j].url)
        => /\ RecordIndex(calls[i]) > 0
           /\ RecordIndex(calls[j]) > 0
           /\ RecordIndex(calls[i]) < RecordIndex(calls[j])

\* C13: the history is append-only: a record that is in the history stays in
\* it in every later state, whatever completes in between, the constructor's
\* loadHistory included
C13_HistoryAppendOnly ==
    [][\A r \in AllRecords(healingHistory) :
          \E r2 \in AllRecords(healingHistory') : r2.id = r.id]_vars


\* the models a completed train or load leaves, and the initial one
WholeModels == {UntrainedModel} \cup {TrainedModels[data] : data \in TrainingSets}

\* C14: whatever calls are in flight, the weights, bias and trained flag that
\* predict reads are those of the initial model or of one completed train or
\* load, and so is every prediction an autoHeal call holds across an await
C14_PredictSeesWholeModel ==
    /\ mlModel \in WholeModels
    /\ \A i \in UserCalls(calls) :
          (calls[i].op = "autoHeal" /\ calls[i].pc = "predicted")
          => \E m \in WholeModels :
                calls[i].prediction = predict(m, extractFeatures(calls[i].element))

\* C14 witness: an autoHeal call waits on a prediction while a later
\* recordOutcome call has trained the model
C14_TrainedDuringAutoHeal ==
    \E i \in UserCalls(calls) : \E j \in UserCalls(calls) :
        /\ i < j
        /\ calls[i].op = "autoHeal" /\ calls[i].pc = "predicted"
        /\ calls[j].op = "recordOutcome" /\ calls[j].pc = "done" /\ calls[j].outcome = "ok"
        /\ calls[j].found.present
        /\ mlModel.isTrained


(* ---------------------------------------------------------------------- *)
(* Range of the confidence (SpecScore)                                     *)
(* ---------------------------------------------------------------------- *)
\* C15: the confidence calculateConfidence returns lies in [0, 1], for every
\* element, strategy and prediction, under every strategy table installed
\* through updateStrategyPriority, whatever stability values it carries
C15_ConfidenceInUnitInterval ==
    lastOp.op = "scoreConfidence" => (0 <= lastOp.count /\ lastOp.count <= 1000)


\* C16: for every element that carries a data-testid attribute, the first
\* candidate of every generator, under its default strategy table and before
\* scoring, is the locator of the testid strategy
C16_TestIdIsFirstCandidate ==
    (lastOp.op = "generate" /\ lastOp.element.dataTestid # NoStr)
    => /\ lastOp.type = "testid"
       /\ lastOp.locator = StrategyLocator("testid", lastOp.element)


(* ---------------------------------------------------------------------- *)
(* A throwing model (SpecFail)                                             *)
(* ---------------------------------------------------------------------- *)
\* C17: when the learned model throws during scoreConfidence, autoHeal or
\* recordOutcome, the caller never receives the model's error
C17_ModelFailureNotPropagated ==
    (/\ lastOp.op \in {"scoreConfidence", "autoHeal", "recordOutcome"}
     /\ lastOp.inner = "ModelUnavailable")
    => lastOp.outcome # "ModelUnavailable"


(* ---------------------------------------------------------------------- *)
(* Variable substitution (SpecDdt)                                         *)
(* ---------------------------------------------------------------------- *)
\* the template with every ${name} placeholder replaced in one pass: by
\* String(data[name]) when the row has the key, by nothing when it has not
RECURSIVE Substituted(_, _, _)
Substituted(template, data, i) ==
    LET named == {name \in VariableNames : MatchesAt(template, Placeholder(name), i)}
        Value(name) ==
            LET at == {n \in DOMAIN data : data[n].key = name}
            IN IF at = {} THEN NoStr ELSE StringOf(data[CHOOSE n \in at : TRUE].value)
        Replace(name) == Value(name) \o Substituted(template, data, i + Len(Placeholder(name)))
    IN IF i > Len(template) THEN <<>>
       ELSE IF named # {} THEN Replace(CHOOSE name \in named : TRUE)
       ELSE <<template[i]>> \o Substituted(template, data, i + 1)

\* C18: substituteVariables replaces every ${name} of the template, by
\* String(data[name]) when data has the key and by the empty string when the
\* variable is missing
C18_EveryPlaceholderReplaced ==
    lastOp.op = "substituteVariables"
    => lastOp.result = Substituted(lastOp.template, lastOp.data, 1)


(* ---------------------------------------------------------------------- *)
(* Decisions and their records; outcome counters (SpecWrap)                *)
(* ---------------------------------------------------------------------- *)
\* C19: an autoHeal call that returns a decision has appended exactly one
\* record to the history of its context, carrying the decision's healedLocator
\* and confidence and the failed locator it was given
C19_DecisionHasItsRecord ==
    [][(lastOp'.op \in {"autoHeal", "serviceAutoHeal"} /\ lastOp'.outcome = "ok")
       => \E r \in AllRecords(healingHistory') :
             /\ AllRecords(healingHistory') \ AllRecords(healingHistory) = {r}
             /\ r.healedLocator = lastOp'.decision.healedLocator
             /\ r.confidence = lastOp'.decision.confidence
             /\ r.originalLocator = lastOp'.locator
             /\ r.url = lastOp'.url]_vars

\* C20: a recordOutcome call on the id of a healing increments exactly one of
\* successCount and failureCount of that healing, the one matching the flag,
\* and stores the outcome on its record
C20_OutcomeCountedOnce ==
    [][(lastOp'.op = "serviceRecordOutcome"
          /\ lastOp'.healingId \in RecordIds(healingHistory) \cup SuggestionIds(suggestions))
       => /\ \E x \in AllSuggestions(suggestions) : \E y \in AllSuggestions(suggestions') :
                /\ x.id = lastOp'.healingId
                /\ y.id = x.id
                /\ y.successCount = x.successCount + (IF lastOp'.success THEN 1 ELSE 0)
                /\ y.failureCount = x.failureCount + (IF lastOp'.success THEN 0 ELSE 1)
          /\ \E r \in AllRecords(healingHistory') :
                r.id = lastOp'.healingId /\ r.success = lastOp'.success]_vars


(* ---------------------------------------------------------------------- *)
(* Policy and statistics (SpecPolicy)                                      *)
(* ---------------------------------------------------------------------- *)
\* the failure outcomes reported for the records of a set of ids
RECURSIVE ReportedFailures(_, _)
ReportedFailures(reports, ids) ==
    IF ids = {} THEN 0
    ELSE LET id == CHOOSE x \in ids : TRUE
         IN ReportsOf(reports, id) + ReportedFailures(reports, ids \ {id})

\* C21: a record is rolled back only when at least rollbackAfterFailures
\* failure outcomes have been reported for its healedLocator in its context;
\* records nobody has reported on do not count as failures
C21_RollbackNeedsReportedFailures ==
    [][lastOp'.op = "recordOutcome" =>
          \A r \in AllRecords(healingHistory) : \A r2 \in AllRecords(healingHistory') :
             (r.id = r2.id /\ r.rollback = NoRollback /\ r2.rollback # NoRollback)
             => ReportedFailures(failureReports',
                   {x.id : x \in {y \in AllRecords(healingHistory') :
                                     /\ y.originalLocator = r2.originalLocator
                                     /\ y.url = r2.url
                                     /\ y.healedLocator = r2.healedLocator}})
                >= config.rollbackAfterFailures]_vars

(* ---------------------------------------------------------------------- *)
(* Reports of the test harness (SpecWrap)                                  *)
(* ---------------------------------------------------------------------- *)
\* C22: when the harness integration has obtained a healing decision and then
\* reports the outcome, the id it passes identifies the record that decision
\* created, the outcome is stored on that record, and the report does not end
\* in RecordNotFound
C22_ReportReachesItsRecord ==
    [][(lastOp'.op = "handleLocatorHealed" /\ lastOp'.outcome # "ignored")
       => /\ lastOp'.inner # "RecordNotFound"
          /\ \E r \in AllRecords(healingHistory') :
                /\ r.id = lastOp'.healingId
                /\ r.healedLocator = lastOp'.decision.healedLocator
                /\ r.success = lastOp'.success]_vars

(* ---------------------------------------------------------------------- *)
(* Approval policy and statistics (SpecPolicy, SpecScore)                  *)
(* ---------------------------------------------------------------------- *)
\* C23: autoHealRate is the share of records whose decision was auto-applied;
\* stated for the statistics taken right after the autoHeal call that created
\* the only record there is, the rate is 1 when that decision was
\* auto-applied and 0 when it required approval
C23_AutoHealRateCountsAutoApplied ==
    [][(lastOp.op = "autoHeal" /\ lastOp.outcome = "ok" /\ lastOp'.op = "getStatistics"
          /\ Cardinality(AllRecords(healingHistory)) = 1)
       => lastOp'.statistics.autoHealRate
             = (IF lastOp.decision.autoApplied THEN 1000 ELSE 0)]_vars

\* C24: every candidate generateAlternativeLocators emits with strategy s is
\* classified as s by extractStrategyFromLocator, the xpath candidates with
\* and without an ancestor-id anchor included
C24_StrategyRoundTrip ==
    lastOp.op = "extractStrategy" => lastOp.inner = lastOp.type

\* C28: while config.requireUserApproval is true no autoHeal call returns a
\* decision with autoApplied = true; every decision it returns has
\* requiresApproval = true
C28_ApprovalRequiredNeverAutoApplies ==
    [][(lastOp'.op = "autoHeal" /\ lastOp'.outcome = "ok" /\ config.requireUserApproval)
       => (~lastOp'.decision.autoApplied /\ lastOp'.decision.requiresApproval)]_vars

(* ---------------------------------------------------------------------- *)
(* Failed healing calls (Spec)                                             *)
(* ---------------------------------------------------------------------- *)
\* C25: an autoHeal call that fails, with HealingDisabled or with
\* NoSuitableLocator, leaves the engine as it was: the history of every
\* context, the suggestion store, the configuration, the learned model and
\* what is persisted of them are the same after the call as before
C25_FailedAutoHealChangesNothing ==
    [][(lastOp'.op = "autoHeal" /\ lastOp'.outcome \in {"HealingDisabled", "NoSuitableLocator"})
       => /\ healingHistory' = healingHistory
          /\ suggestions' = suggestions
          /\ config' = config
          /\ mlModel' = mlModel
          /\ storage' = storage]_vars

\* a call has failed for want of a suitable locator in an engine that holds records
C25_FailedWithRecords ==
    /\ lastOp.op = "autoHeal"
    /\ lastOp.outcome = "NoSuitableLocator"
    /\ AllRecords(healingHistory) # {}

(* ---------------------------------------------------------------------- *)
(* Cleanup and the retained suggestions (SpecSugg)                         *)
(* ---------------------------------------------------------------------- *)
\* C26: cleanupSuggestions changes nothing about the suggestions it retains:
\* every suggestion that is in the store after the cleanup has the status and
\* the confidence that the store held for it before the cleanup
C26_CleanupKeepsRetained ==
    [][lastOp'.op = "cleanup"
       => \A x \in AllSuggestions(storage.healing_suggestions) :
             \A y \in AllSuggestions(storage'.healing_suggestions) :
                x.id = y.id => (y.status = x.status /\ y.confidence = x.confidence)]_vars

C29_TripleUnique ==
    \A a \in 1..Len(prisma.selfHealingLocator) : \A b \in 1..Len(prisma.selfHealingLocator) :
        (/\ prisma.selfHealingLocator[a].scriptId = prisma.selfHealingLocator[b].scriptId
         /\ prisma.selfHealingLocator[a].brokenLocator = prisma.selfHealingLocator[b].brokenLocator
         /\ prisma.selfHealingLocator[a].validLocator = prisma.selfHealingLocator[b].validLocator)
        => a = b

\* C30: once stopTestRun has set a run to cancelled and taken it out of the
\* active runs, no step of a startTestRun still executing for it sets its
\* status to passed or failed; and when startTestRun has settled, the run is
\* not among the active runs
C30_CancelledStaysCancelled ==
    [][/\ \A id \in TestRunIds :
            (prisma.testRun[id] = "cancelled" /\ id \notin activeRuns)
            => prisma'.testRun[id] \notin {"passed", "failed"}
       /\ \A i \in 1..Len(requests') :
            (requests'[i].op = "startTestRun" /\ requests'[i].pc = "done")
            => requests'[i].testRunId \notin activeRuns']_vars

====
